---- MODULE Spec2Model ----
(***************************************************************************)
(* AladdinChat: the socket handlers of server.js over the record store of  *)
(* src/db.js.  Every handler is a task that advances one await at a time:  *)
(* a step performs the store call the task is suspended on and runs the    *)
(* synchronous code that follows it, up to the next await.  Timers are the *)
(* setTimeout callbacks of the AI delay queue.                             *)
(***************************************************************************)
EXTENDS Integers, Sequences, FiniteSets, Bags, TLC

VARIABLES
    rooms,        \* rooms table: room code -> [pause_ai]
    participants, \* participants table: room -> rows in creation order
    messages,     \* messages table: rows in creation order (id = index)
    conn,         \* socket -> socket.data, joined rooms, connected
    roomState,    \* roomState map: room code -> [interjectActive, pending]
    timers,       \* message ids whose delay timer is scheduled
    clock,        \* Date.now()
    tasks,        \* bag of handler invocations suspended on an await
    ops,          \* number of inbound events handled so far
    inbox,        \* socket -> events emitted to that socket alone
    roomLog,      \* room code -> events broadcast with io.to(room)
    obs           \* the event types that inbox and roomLog record

vars == <<rooms, participants, messages, conn, roomState, timers, clock,
          tasks, ops, inbox, roomLog, obs>>

----------------------------------------------------------------------------
(* Bounds *)

MaxOps == 2
MaxMsgs == 5

AI_MESSAGE_DELAY_MS == 10000

Conns == {1, 2, 3}
Rooms == {1, 2}
RoomCodes == Rooms \cup {9}
ClientIds == {1, 2}
BadClientId == -1
Roles == {"human", "ai"}

NoPart == [client_id |-> 0, role |-> "none", display_name |-> <<>>,
           is_primary_human |-> FALSE, socket_id |-> 0, is_online |-> FALSE]

----------------------------------------------------------------------------
(* Helpers *)

Range(s) == {s[i] : i \in 1..Len(s)}

\* an emitted event; by is the number of the inbound event whose handler
\* emits it (0 for a timer callback)
Ev(type, msg, ids, flag, cause, by) ==
    [type |-> type, msg |-> msg, ids |-> ids, flag |-> flag, cause |-> cause,
     by |-> by]

Recorded(evs) == SelectSeq(evs, LAMBDA e : e.type \in obs)

\* socket.emit: the events reach socket c if it is still connected
EmitTo(box, c, evs) ==
    IF conn[c].connected THEN [box EXCEPT ![c] = @ \o Recorded(evs)] ELSE box

\* io.to(roomCode).emit
Broadcast(log, roomCode, evs) == [log EXCEPT ![roomCode] = @ \o Recorded(evs)]

\* io.sockets.adapter.rooms.get(roomCode)
RoomMembers(roomCode) == {c \in Conns : conn[c].connected /\ roomCode \in conn[c].rooms}

isValidClientId(clientId) == clientId \in ClientIds

NewTask(kind, c, pc, roomCode) ==
    [kind |-> kind, conn |-> c, pc |-> pc, roomCode |-> roomCode,
     role |-> "none", clientId |-> 0, flag |-> FALSE, pause |-> FALSE,
     existing |-> NoPart, prim |-> FALSE, name |-> <<>>, held |-> FALSE,
     queue |-> <<>>, msg |-> 0, n |-> 0, want |-> "none"]

Suspend(t, u) == tasks' = (tasks (-) SetToBag({t})) (+) SetToBag({u})
Finish(t) == tasks' = tasks (-) SetToBag({t})
Running == BagToSet(tasks)

----------------------------------------------------------------------------
(* src/db.js *)

getRoomByCode(code) == code \in Rooms

getParticipantByClient(roomId, clientId) ==
    LET hit == {i \in 1..Len(participants[roomId]) :
                   participants[roomId][i].client_id = clientId}
    IN IF hit = {} THEN NoPart ELSE participants[roomId][CHOOSE i \in hit : TRUE]

hasPrimaryHuman(roomId) ==
    \E i \in 1..Len(participants[roomId]) :
        /\ participants[roomId][i].role = "human"
        /\ participants[roomId][i].is_primary_human

getParticipantRoles(roomId) == {p.role : p \in Range(participants[roomId])}

\* INSERT ... ON CONFLICT (room_id, client_id) DO UPDATE: role and
\* is_primary_human keep the stored values
upsertParticipant(roomId, socketId, clientId, role, displayName, isPrimaryHuman) ==
    LET rows == participants[roomId]
        hit == {i \in 1..Len(rows) : rows[i].client_id = clientId}
    IN IF hit = {}
       THEN Append(rows, [client_id |-> clientId, role |-> role,
                          display_name |-> displayName,
                          is_primary_human |-> isPrimaryHuman,
                          socket_id |-> socketId, is_online |-> TRUE])
       ELSE [i \in 1..Len(rows) |->
                IF i \in hit
                THEN [rows[i] EXCEPT !.socket_id = socketId,
                                     !.display_name = displayName,
                                     !.is_online = TRUE]
                ELSE rows[i]]

\* the ids of the rows getMessages returns, in created_at order
getMessages(roomId, viewerRole, viewerSocketId) ==
    LET visible(i) ==
            /\ messages[i].room = roomId
            /\ \/ viewerRole # "ai"
               \/ messages[i].senderSocketId = viewerSocketId
               \/ /\ ~messages[i].blocked
                  /\ (~messages[i].delayed \/ messages[i].due)
    IN SelectSeq([i \in 1..Len(messages) |-> i], visible)

----------------------------------------------------------------------------
(* join-room *)

\* server.js 141-149: the handler adopts role, identity and primary flag
JoinEnter(t, u, isPrimaryHuman) ==
    /\ conn' = [conn EXCEPT ![t.conn] =
                  [@ EXCEPT !.roomCode = u.roomCode,
                            !.role = u.role,
                            !.clientId = IF u.existing # NoPart THEN u.existing.client_id
                                         ELSE IF isValidClientId(u.clientId) THEN u.clientId
                                         ELSE 0,
                            !.rooms = IF conn[t.conn].connected THEN @ \cup {u.roomCode} ELSE @,
                            !.displayName = u.existing.display_name,
                            !.isPrimaryHuman = isPrimaryHuman]]
    /\ Suspend(t, [u EXCEPT !.prim = isPrimaryHuman,
                            !.pc = IF u.existing # NoPart THEN "upsert" ELSE "getMessages"])

\* as JoinResolved, but the requested role wins over the stored one
JoinResolvedByRequest(t, u, existing) ==
    LET safeRole == IF u.role = "human" THEN "human" ELSE "ai"
        v == [u EXCEPT !.role = safeRole, !.existing = existing]
    IN IF safeRole = "human" /\ existing = NoPart
       THEN Suspend(t, [v EXCEPT !.pc = "hasPrimary"]) /\ UNCHANGED conn
       ELSE JoinEnter(t, v, safeRole = "human" /\ existing.is_primary_human)

\* server.js 136-139, once existingParticipant is known
JoinResolved(t, u, existing) ==
    LET safeRole == IF existing # NoPart THEN existing.role
                    ELSE IF u.role = "human" THEN "human" ELSE "ai"
        v == [u EXCEPT !.role = safeRole, !.existing = existing]
    IN IF safeRole = "human" /\ existing = NoPart
       THEN Suspend(t, [v EXCEPT !.pc = "hasPrimary"]) /\ UNCHANGED conn
       ELSE JoinEnter(t, v, safeRole = "human" /\ existing.is_primary_human)

JoinRoom(c, roomCode, role, clientId) ==
    /\ ops < MaxOps
    /\ conn[c].connected
    /\ ops' = ops + 1
    /\ tasks' = tasks (+) SetToBag({[NewTask("join", c, "getRoom", roomCode)
                                        EXCEPT !.role = role, !.want = role,
                                               !.clientId = clientId, !.n = ops + 1]})
    /\ UNCHANGED <<rooms, participants, messages, conn, roomState, timers, clock,
                   inbox, roomLog, obs>>

JoinGetRoom(t) ==
    /\ t.kind = "join" /\ t.pc = "getRoom"
    /\ IF ~getRoomByCode(t.roomCode) \/ (t.clientId # 0 /\ ~isValidClientId(t.clientId))
       THEN /\ inbox' = EmitTo(inbox, t.conn, <<Ev("chat-error", 0, <<>>, FALSE, "join", t.n)>>)
            /\ Finish(t)
            /\ UNCHANGED conn
       ELSE /\ IF t.clientId # 0
               THEN /\ Suspend(t, [t EXCEPT !.pc = "getParticipant",
                                            !.pause = rooms[t.roomCode].pause_ai])
                    /\ UNCHANGED conn
               ELSE JoinResolved(t, [t EXCEPT !.pause = rooms[t.roomCode].pause_ai], NoPart)
            /\ UNCHANGED inbox
    /\ UNCHANGED <<rooms, participants, messages, roomState, timers, clock, ops,
                   roomLog, obs>>

JoinGetParticipant(t) ==
    /\ t.kind = "join" /\ t.pc = "getParticipant"
    /\ JoinResolved(t, t, getParticipantByClient(t.roomCode, t.clientId))
    /\ UNCHANGED <<rooms, participants, messages, roomState, timers, clock, ops,
                   inbox, roomLog, obs>>

JoinHasPrimary(t) ==
    /\ t.kind = "join" /\ t.pc = "hasPrimary"
    /\ JoinEnter(t, t, ~hasPrimaryHuman(t.roomCode))
    /\ UNCHANGED <<rooms, participants, messages, roomState, timers, clock, ops,
                   inbox, roomLog, obs>>

JoinUpsert(t) ==
    /\ t.kind = "join" /\ t.pc = "upsert"
    /\ participants' = [participants EXCEPT ![t.roomCode] =
          upsertParticipant(t.roomCode, t.conn, t.existing.client_id, t.role,
                            t.existing.display_name, t.existing.is_primary_human)]
    /\ Suspend(t, [t EXCEPT !.pc = "getMessages"])
    /\ UNCHANGED <<rooms, messages, conn, roomState, timers, clock, ops, inbox,
                   roomLog, obs>>

JoinGetMessages(t) ==
    /\ t.kind = "join" /\ t.pc = "getMessages"
    /\ inbox' = EmitTo(inbox, t.conn,
          <<Ev("chat-history", 0, getMessages(t.roomCode, t.role, t.conn), t.pause, "join", t.n)>>
          \o (IF t.existing # NoPart
              THEN <<Ev("role-locked", t.existing.client_id, <<>>,
                        t.existing.is_primary_human, t.role, t.n)>>
              ELSE <<>>))
    /\ Suspend(t, [t EXCEPT !.pc = "emitUpdate"])
    /\ UNCHANGED <<rooms, participants, messages, conn, roomState, timers, clock,
                   ops, roomLog, obs>>

JoinEmitUpdate(t) ==
    /\ t.kind = "join" /\ t.pc = "emitUpdate"
    /\ roomLog' = Broadcast(roomLog, t.roomCode,
                            <<Ev("participant-update", 0, <<>>, FALSE, "join", t.n)>>)
    /\ Finish(t)
    /\ UNCHANGED <<rooms, participants, messages, conn, roomState, timers, clock,
                   ops, inbox, obs>>

----------------------------------------------------------------------------
(* set-role *)

SetRoleApply(c, role) ==
    IF conn[c].clientId # 0
    THEN /\ inbox' = EmitTo(inbox, c, <<Ev("chat-error", 0, <<>>, FALSE, "set-role", ops + 1)>>)
         /\ UNCHANGED conn
    ELSE /\ conn' = [conn EXCEPT ![c].role = IF role = "human" THEN "human" ELSE "ai"]
         /\ inbox' = EmitTo(inbox, c, <<Ev("role-selected", 0, <<>>, FALSE, role, ops + 1)>>)

SetRole(c, roomCode, role) ==
    /\ ops < MaxOps
    /\ conn[c].connected
    /\ ops' = ops + 1
    /\ IF conn[c].roomCode # roomCode
       THEN UNCHANGED <<conn, inbox>>
       ELSE SetRoleApply(c, role)
    /\ UNCHANGED <<rooms, participants, messages, roomState, timers, clock, tasks,
                   roomLog, obs>>

----------------------------------------------------------------------------
(* send-message *)

\* server.js 275-277
DisplayName(role, isPrimaryHuman, clientId) ==
    IF role = "human"
    THEN <<(IF isPrimaryHuman THEN "MainHuman" ELSE "Human"), clientId>>
    ELSE <<"AI", clientId>>

\* server.js 300-302: senderRole is read before the await of getParticipantRoles
SendToRoles(t, u, data) ==
    Suspend(t, [u EXCEPT !.pc = "getRoles",
                         !.role = IF data[t.conn].role = "human" THEN "human" ELSE "ai"])

SendMessage(c, roomCode, emergencyInterject) ==
    /\ ops < MaxOps
    /\ conn[c].connected
    /\ Len(messages) + Cardinality({t \in Running : t.kind = "send"}) < MaxMsgs
    /\ ops' = ops + 1
    /\ tasks' = tasks (+) SetToBag({[NewTask("send", c, "getRoom", roomCode)
                                        EXCEPT !.flag = emergencyInterject, !.n = ops + 1]})
    /\ UNCHANGED <<rooms, participants, messages, conn, roomState, timers, clock,
                   inbox, roomLog, obs>>

SendGetRoom(t) ==
    /\ t.kind = "send" /\ t.pc = "getRoom"
    /\ IF ~getRoomByCode(t.roomCode)
       THEN Finish(t)
       ELSE LET u == [t EXCEPT !.pause = rooms[t.roomCode].pause_ai]
            IN IF conn[t.conn].clientId = 0
               THEN \E id \in ClientIds :
                        Suspend(t, [u EXCEPT !.pc = "checkId", !.clientId = id])
               ELSE SendToRoles(t, u, conn)
    /\ UNCHANGED <<rooms, participants, messages, conn, roomState, timers, clock,
                   ops, inbox, roomLog, obs>>

\* server.js 269-277: the collision loop, then assignedRole
SendCheckId(t) ==
    /\ t.kind = "send" /\ t.pc = "checkId"
    /\ IF getParticipantByClient(t.roomCode, t.clientId) # NoPart
       THEN \E id \in ClientIds : Suspend(t, [t EXCEPT !.clientId = id])
       ELSE LET assignedRole == IF conn[t.conn].role = "human" THEN "human" ELSE "ai"
            IN IF assignedRole = "human"
               THEN Suspend(t, [t EXCEPT !.pc = "hasPrimary", !.role = assignedRole])
               ELSE Suspend(t, [t EXCEPT !.pc = "upsert", !.role = assignedRole,
                                         !.prim = FALSE,
                                         !.name = DisplayName(assignedRole, FALSE, t.clientId)])
    /\ UNCHANGED <<rooms, participants, messages, conn, roomState, timers, clock,
                   ops, inbox, roomLog, obs>>

SendHasPrimary(t) ==
    /\ t.kind = "send" /\ t.pc = "hasPrimary"
    /\ LET assignedPrimaryHuman == ~hasPrimaryHuman(t.roomCode)
       IN Suspend(t, [t EXCEPT !.pc = "upsert", !.prim = assignedPrimaryHuman,
                               !.name = DisplayName(t.role, assignedPrimaryHuman, t.clientId)])
    /\ UNCHANGED <<rooms, participants, messages, conn, roomState, timers, clock,
                   ops, inbox, roomLog, obs>>

SendUpsert(t) ==
    /\ t.kind = "send" /\ t.pc = "upsert"
    /\ participants' = [participants EXCEPT ![t.roomCode] =
          upsertParticipant(t.roomCode, t.conn, t.clientId, t.role, t.name, t.prim)]
    /\ conn' = [conn EXCEPT ![t.conn] = [@ EXCEPT !.clientId = t.clientId,
                                                  !.displayName = t.name,
                                                  !.isPrimaryHuman = t.prim]]
    /\ inbox' = EmitTo(inbox, t.conn, <<Ev("role-locked", t.clientId, <<>>, t.prim, t.role, t.n)>>)
    /\ Suspend(t, [t EXCEPT !.pc = "emitUpdate"])
    /\ UNCHANGED <<rooms, messages, roomState, timers, clock, ops, roomLog, obs>>

SendEmitUpdate(t) ==
    /\ t.kind = "send" /\ t.pc = "emitUpdate"
    /\ roomLog' = Broadcast(roomLog, t.roomCode,
                            <<Ev("participant-update", 0, <<>>, FALSE, "send", t.n)>>)
    /\ SendToRoles(t, t, conn)
    /\ UNCHANGED <<rooms, participants, messages, conn, roomState, timers, clock,
                   ops, inbox, obs>>

HeldAlsoWhenEmergency(pause_ai, hasHuman, senderRole, emergencyInterject) ==
    pause_ai /\ hasHuman /\ senderRole = "human"

\* server.js 303-309: the pause gate
HeldForAi(pause_ai, hasHuman, senderRole, emergencyInterject) ==
    pause_ai /\ hasHuman /\ senderRole = "human" /\ ~emergencyInterject

SendGetRoles(t) ==
    /\ t.kind = "send" /\ t.pc = "getRoles"
    /\ LET roles == getParticipantRoles(t.roomCode)
           senderDisplayName == IF conn[t.conn].displayName # <<>>
                                THEN conn[t.conn].displayName
                                ELSE <<(IF t.role = "human" THEN "Human" ELSE "AI")>>
       IN Suspend(t, [t EXCEPT !.pc = "save",
                               !.held = HeldForAi(t.pause, "human" \in roles, t.role, t.flag),
                               !.name = senderDisplayName])
    /\ UNCHANGED <<rooms, participants, messages, conn, roomState, timers, clock,
                   ops, inbox, roomLog, obs>>

NeverSendToAiImmediately(senderRole, heldForAi, isHumanInterjection) == FALSE

NoImmediateRecipients(recipientSockets) == {}

\* server.js 333: the recipients whose role is not 'ai'
NonAiRecipients(recipientSockets) == {r \in recipientSockets : conn[r].role # "ai"}

\* server.js 340
ShouldSendToAiImmediately(senderRole, heldForAi, isHumanInterjection) ==
    senderRole = "human" /\ (~heldForAi \/ isHumanInterjection)

EnqueueForAnyAiSender(senderRole, aiRecipients) == senderRole = "ai"

\* server.js 347
ShouldEnqueue(senderRole, aiRecipients) == senderRole = "ai" /\ aiRecipients # {}

\* server.js 393
ClearsInterject(senderRole, emergencyInterject) ==
    senderRole = "human" /\ emergencyInterject

PendingView(pending) ==
    [i \in 1..Len(pending) |-> <<pending[i].messageId, pending[i].releaseAt>>]

MarksDeliveredAlways(recipientSockets) == TRUE

\* server.js 403: if (recipientSockets.length > 0)
MarksDelivered(recipientSockets) == recipientSockets # {}

\* server.js 310-406: saveMessage, then routing, enqueue and interject reset
SendSave(t) ==
    /\ t.kind = "send" /\ t.pc = "save"
    /\ LET id == Len(messages) + 1
           isHumanInterjection == t.role = "human" /\ t.flag
           recipientSockets == RoomMembers(t.roomCode) \ {t.conn}
           aiRecipients == {r \in recipientSockets : conn[r].role = "ai"}
           nonAiRecipients == NonAiRecipients(recipientSockets)
           immediate == {t.conn} \cup nonAiRecipients \cup
                        (IF ShouldSendToAiImmediately(t.role, t.held, isHumanInterjection)
                         THEN aiRecipients ELSE {})
           enqueue == ShouldEnqueue(t.role, aiRecipients)
           reset == ClearsInterject(t.role, t.flag)
           entry == [messageId |-> id, senderSocketId |-> t.conn,
                     releaseAt |-> clock + AI_MESSAGE_DELAY_MS,
                     createdAt |-> clock, blocked |-> FALSE]
           pending2 == IF enqueue THEN Append(roomState[t.roomCode].pending, entry)
                       ELSE roomState[t.roomCode].pending
       IN /\ messages' = Append(messages,
                [room |-> t.roomCode, senderSocketId |-> t.conn, senderRole |-> t.role,
                 senderDisplayName |-> t.name, status |-> "sent",
                 emergencyInterject |-> t.flag, heldForAi |-> t.held,
                 delayed |-> (t.role = "ai"), due |-> FALSE,
                 blocked |-> FALSE, released |-> FALSE, n |-> t.n,
                 savedHeld |-> t.held, queued |-> enqueue])
          /\ inbox' = [c \in Conns |->
                IF c \in immediate /\ conn[c].connected
                THEN inbox[c] \o Recorded(<<Ev("message-new", id, <<>>, isHumanInterjection, "send", t.n)>>)
                ELSE inbox[c]]
          /\ roomState' = [roomState EXCEPT ![t.roomCode] =
                [interjectActive |-> IF reset THEN FALSE ELSE @.interjectActive,
                 pending |-> pending2]]
          /\ timers' = IF enqueue THEN timers \cup {id} ELSE timers
          /\ \E d \in (IF enqueue THEN {0, 1} ELSE {0}) : clock' = clock + d
          /\ roomLog' = Broadcast(roomLog, t.roomCode,
                (IF enqueue
                 THEN <<Ev("pending-delay-update", id, PendingView(pending2), FALSE, "send", t.n),
                        Ev("toast-update", id, <<>>, FALSE, "enqueue", t.n)>>
                 ELSE <<>>)
                \o (IF reset
                    THEN <<Ev("interject-updated", id, <<>>, FALSE, "send", t.n),
                           Ev("toast-update", id, <<>>, FALSE, "reset", t.n)>>
                    ELSE <<>>))
          /\ IF MarksDelivered(recipientSockets)
             THEN Suspend(t, [t EXCEPT !.pc = "markDelivered", !.msg = id])
             ELSE Finish(t)
    /\ UNCHANGED <<rooms, participants, conn, ops, obs>>

markDeliveredUnconditionally(rows, messageId) ==
    [rows EXCEPT ![messageId].status = "delivered"]

\* src/db.js 220-222
markDelivered(rows, messageId) ==
    [rows EXCEPT ![messageId].status = IF @ = "sent" THEN "delivered" ELSE @]

SendMarkDelivered(t) ==
    /\ t.kind = "send" /\ t.pc = "markDelivered"
    /\ messages' = markDelivered(messages, t.msg)
    /\ roomLog' = Broadcast(roomLog, t.roomCode,
                            <<Ev("message-status", t.msg, <<>>, FALSE, "delivered", t.n)>>)
    /\ Finish(t)
    /\ UNCHANGED <<rooms, participants, conn, roomState, timers, clock, ops, inbox, obs>>

----------------------------------------------------------------------------
(* the delay timer callback of send-message, server.js 357-380 *)

AiMembersWithSender(roomCode, senderSocketId) ==
    {c \in RoomMembers(roomCode) : conn[c].role = "ai"}

AiMembersExcept(roomCode, senderSocketId) ==
    {c \in RoomMembers(roomCode) : c # senderSocketId /\ conn[c].role = "ai"}

DeliverToAiIfSenderOnline(box, roomCode, senderSocketId, id, cause, by) ==
    [c \in Conns |->
        IF c \in AiMembersExcept(roomCode, senderSocketId) /\ conn[senderSocketId].connected
        THEN box[c] \o Recorded(<<Ev("message-new", id, <<>>, FALSE, cause, by)>>)
        ELSE box[c]]

DeliverToAi(box, roomCode, senderSocketId, id, cause, by) ==
    [c \in Conns |->
        IF c \in AiMembersExcept(roomCode, senderSocketId)
        THEN box[c] \o Recorded(<<Ev("message-new", id, <<>>, FALSE, cause, by)>>)
        ELSE box[c]]

KeepEntry(pending, id) == pending

\* server.js 359: currentState.pending.filter((entry) => entry.messageId !== message.id)
WithoutEntry(pending, id) == SelectSeq(pending, LAMBDA e : e.messageId # id)

ExpiryAlwaysDelivers(roomCode) == TRUE

\* server.js 361: if (!currentState.interjectActive)
ExpiryDelivers(roomCode) == ~roomState[roomCode].interjectActive

\* timers of equal delay run in the order they were scheduled
TimerDue(id) == id \in timers /\ \A k \in timers : id <= k

TimerFire(id) ==
    /\ TimerDue(id)
    /\ LET roomCode == messages[id].room
           sender == messages[id].senderSocketId
           left == WithoutEntry(roomState[roomCode].pending, id)
       IN /\ timers' = timers \ {id}
          /\ roomState' = [roomState EXCEPT ![roomCode].pending = left]
          /\ messages' = [messages EXCEPT ![id].due = TRUE]
          /\ IF ExpiryDelivers(roomCode)
             THEN /\ inbox' = DeliverToAi(inbox, roomCode, sender, id, "timer", 0)
                  /\ tasks' = tasks (+) SetToBag({[NewTask("timer", sender, "markReleased", roomCode)
                                                      EXCEPT !.msg = id]})
                  /\ UNCHANGED roomLog
             ELSE /\ roomLog' = Broadcast(roomLog, roomCode,
                        <<Ev("pending-delay-update", id, PendingView(left), FALSE, "timer", 0)>>)
                  /\ UNCHANGED <<inbox, tasks>>
    /\ UNCHANGED <<rooms, participants, conn, clock, ops, obs>>

TimerMarkReleased(t) ==
    /\ t.kind = "timer" /\ t.pc = "markReleased"
    /\ messages' = [messages EXCEPT ![t.msg].released = TRUE]
    /\ roomLog' = Broadcast(roomLog, t.roomCode,
          <<Ev("toast-update", t.msg, <<>>, FALSE, "released", 0),
            Ev("pending-delay-update", t.msg, PendingView(roomState[t.roomCode].pending),
               FALSE, "timer", 0)>>)
    /\ Finish(t)
    /\ UNCHANGED <<rooms, participants, conn, roomState, timers, clock, ops, inbox, obs>>

----------------------------------------------------------------------------
(* start-interject *)

CompareNewestFirst(a, b) == b.createdAt - a.createdAt

\* server.js 234: the comparator (a, b) => a.createdAt - b.createdAt
CompareCreatedAt(a, b) == a.createdAt - b.createdAt

RECURSIVE InsertSorted(_, _)
InsertSorted(e, s) ==
    IF s = <<>> THEN <<e>>
    ELSE IF CompareCreatedAt(Head(s), e) > 0 THEN <<e>> \o s
    ELSE <<Head(s)>> \o InsertSorted(e, Tail(s))

\* [...state.pending].sort(...): Array.prototype.sort is stable
RECURSIVE SortPending(_)
SortPending(s) ==
    IF s = <<>> THEN <<>>
    ELSE InsertSorted(s[Len(s)], SortPending(SubSeq(s, 1, Len(s) - 1)))

\* server.js 237-238: clearTimeout(pending.timer); pending.blocked = true
\* (the entry object is shared with state.pending)
MarkBlocked(pending, id) ==
    [i \in 1..Len(pending) |->
        IF pending[i].messageId = id THEN [pending[i] EXCEPT !.blocked = TRUE]
        ELSE pending[i]]

\* server.js 251-257
InterjectNotices(c, by) ==
    <<Ev("interject-updated", c, <<>>, TRUE, "interject", by),
      Ev("pending-delay-update", 0, <<>>, FALSE, "interject", by),
      Ev("toast-update", 0, <<>>, FALSE, "interject", by)>>

\* server.js 230: the guard of start-interject
MayInterject(c, roomCode) == conn[c].role = "human" /\ conn[c].isPrimaryHuman

StartInterjectRun(c, roomCode) ==
    LET q == SortPending(roomState[roomCode].pending)
    IN IF q = <<>>
       THEN /\ roomState' = [roomState EXCEPT ![roomCode] =
                                [interjectActive |-> TRUE, pending |-> <<>>]]
            /\ roomLog' = Broadcast(roomLog, roomCode, InterjectNotices(c, ops + 1))
            /\ UNCHANGED <<timers, tasks>>
       ELSE /\ roomState' = [roomState EXCEPT ![roomCode] =
                                [interjectActive |-> TRUE,
                                 pending |-> MarkBlocked(@.pending, Head(q).messageId)]]
            /\ timers' = timers \ {Head(q).messageId}
            /\ tasks' = tasks (+) SetToBag({[NewTask("interject", c, "block", roomCode)
                                                EXCEPT !.queue = q, !.n = ops + 1]})
            /\ UNCHANGED roomLog

StartInterject(c, roomCode) ==
    /\ ops < MaxOps
    /\ conn[c].connected
    /\ ops' = ops + 1
    /\ IF MayInterject(c, roomCode)
       THEN StartInterjectRun(c, roomCode)
       ELSE UNCHANGED <<roomState, roomLog, timers, tasks>>
    /\ UNCHANGED <<rooms, participants, messages, conn, clock, inbox, obs>>

\* src/db.js 241-243, then server.js 240-247
InterjectBlock(t) ==
    /\ t.kind = "interject" /\ t.pc = "block"
    /\ LET e == Head(t.queue)
       IN /\ messages' = [messages EXCEPT ![e.messageId].blocked = TRUE,
                                          ![e.messageId].released = TRUE]
          /\ inbox' = DeliverToAi(inbox, t.roomCode, e.senderSocketId, e.messageId, "flush", t.n)
    /\ Suspend(t, [t EXCEPT !.pc = "release"])
    /\ UNCHANGED <<rooms, participants, conn, roomState, timers, clock, ops, roomLog, obs>>

\* src/db.js 237-239, then the next iteration or server.js 251-257
InterjectRelease(t) ==
    /\ t.kind = "interject" /\ t.pc = "release"
    /\ messages' = [messages EXCEPT ![Head(t.queue).messageId].released = TRUE]
    /\ LET rest == Tail(t.queue)
       IN IF rest # <<>>
          THEN /\ roomState' = [roomState EXCEPT ![t.roomCode].pending =
                                   MarkBlocked(@, Head(rest).messageId)]
               /\ timers' = timers \ {Head(rest).messageId}
               /\ Suspend(t, [t EXCEPT !.pc = "block", !.queue = rest])
               /\ UNCHANGED roomLog
          ELSE /\ roomState' = [roomState EXCEPT ![t.roomCode].pending = <<>>]
               /\ roomLog' = Broadcast(roomLog, t.roomCode, InterjectNotices(t.conn, t.n))
               /\ Finish(t)
               /\ UNCHANGED timers
    /\ UNCHANGED <<rooms, participants, conn, clock, ops, inbox, obs>>

----------------------------------------------------------------------------
(* toggle-pause-ai *)

\* server.js 200: the guard of toggle-pause-ai
MayTogglePause(c, roomCode) == conn[c].isPrimaryHuman

TogglePauseAi(c, roomCode, pauseAi) ==
    /\ ops < MaxOps
    /\ conn[c].connected
    /\ ops' = ops + 1
    /\ IF ~MayTogglePause(c, roomCode)
       THEN /\ inbox' = EmitTo(inbox, c, <<Ev("chat-error", 0, <<>>, FALSE, "toggle", ops + 1)>>)
            /\ UNCHANGED tasks
       ELSE /\ tasks' = tasks (+) SetToBag({[NewTask("toggle", c, "getRoom", roomCode)
                                                EXCEPT !.flag = pauseAi, !.n = ops + 1]})
            /\ UNCHANGED inbox
    /\ UNCHANGED <<rooms, participants, messages, conn, roomState, timers, clock,
                   roomLog, obs>>

ToggleGetRoom(t) ==
    /\ t.kind = "toggle" /\ t.pc = "getRoom"
    /\ IF ~getRoomByCode(t.roomCode)
       THEN Finish(t)
       ELSE Suspend(t, [t EXCEPT !.pc = "setPause"])
    /\ UNCHANGED <<rooms, participants, messages, conn, roomState, timers, clock,
                   ops, inbox, roomLog, obs>>

\* src/db.js 228-230, then server.js 209-211
ToggleSetPause(t) ==
    /\ t.kind = "toggle" /\ t.pc = "setPause"
    /\ rooms' = [rooms EXCEPT ![t.roomCode].pause_ai = t.flag]
    /\ roomLog' = Broadcast(roomLog, t.roomCode,
                            <<Ev("pause-updated", t.conn, <<>>, t.flag, "toggle", t.n)>>)
    /\ IF ~t.flag
       THEN Suspend(t, [t EXCEPT !.pc = "selectHeld"])
       ELSE Finish(t)
    /\ UNCHANGED <<participants, messages, conn, roomState, timers, clock, ops,
                   inbox, obs>>

\* server.js 212-217: SELECT ... WHERE held_for_ai = TRUE ORDER BY created_at ASC
HeldMessages(roomId) ==
    SelectSeq([i \in 1..Len(messages) |-> i],
              LAMBDA i : messages[i].room = roomId /\ messages[i].heldForAi)

ToggleSelectHeld(t) ==
    /\ t.kind = "toggle" /\ t.pc = "selectHeld"
    /\ LET rows == HeldMessages(t.roomCode)
       IN IF Len(rows) > 0
          THEN Suspend(t, [t EXCEPT !.pc = "updateHeld", !.queue = rows])
          ELSE Finish(t)
    /\ UNCHANGED <<rooms, participants, messages, conn, roomState, timers, clock,
                   ops, inbox, roomLog, obs>>

\* server.js 220-221: UPDATE ... WHERE held_for_ai = TRUE, then the notice
ToggleUpdateHeld(t) ==
    /\ t.kind = "toggle" /\ t.pc = "updateHeld"
    /\ messages' = [i \in 1..Len(messages) |->
                       IF messages[i].room = t.roomCode /\ messages[i].heldForAi
                       THEN [messages[i] EXCEPT !.heldForAi = FALSE]
                       ELSE messages[i]]
    /\ roomLog' = Broadcast(roomLog, t.roomCode,
                            <<Ev("release-held-messages", t.conn, t.queue, FALSE, "toggle", t.n)>>)
    /\ Finish(t)
    /\ UNCHANGED <<rooms, participants, conn, roomState, timers, clock, ops, inbox, obs>>

----------------------------------------------------------------------------
(* mark-read *)

\* src/db.js 224-226: UPDATE messages SET status = 'read' WHERE id = ANY(ids)
markRead(rows, messageIds) ==
    [i \in 1..Len(rows) |->
        IF i \in Range(messageIds) THEN [rows[i] EXCEPT !.status = "read"] ELSE rows[i]]

MarkRead(c, messageIds) ==
    /\ ops < MaxOps
    /\ conn[c].connected
    /\ ops' = ops + 1
    /\ IF Len(messageIds) = 0
       THEN UNCHANGED tasks
       ELSE tasks' = tasks (+) SetToBag({[NewTask("read", c, "markRead", 0)
                                             EXCEPT !.queue = messageIds, !.n = ops + 1]})
    /\ UNCHANGED <<rooms, participants, messages, conn, roomState, timers, clock,
                   inbox, roomLog, obs>>

\* server.js 416-419: the room is read from socket.data after the await
ReadMarkRead(t) ==
    /\ t.kind = "read" /\ t.pc = "markRead"
    /\ messages' = markRead(messages, t.queue)
    /\ roomLog' = IF conn[t.conn].roomCode # 0
                  THEN Broadcast(roomLog, conn[t.conn].roomCode,
                                 <<Ev("messages-read", 0, t.queue, FALSE, "read", t.n)>>)
                  ELSE roomLog
    /\ Finish(t)
    /\ UNCHANGED <<rooms, participants, conn, roomState, timers, clock, ops, inbox, obs>>

----------------------------------------------------------------------------
(* disconnect *)

\* src/db.js 191-198
setParticipantOffline(socketId) ==
    [r \in Rooms |->
        [i \in 1..Len(participants[r]) |->
            IF participants[r][i].socket_id = socketId
            THEN [participants[r][i] EXCEPT !.is_online = FALSE]
            ELSE participants[r][i]]]

\* the socket has left its rooms when the disconnect handler starts
Disconnect(c) ==
    /\ ops < MaxOps
    /\ conn[c].connected
    /\ ops' = ops + 1
    /\ conn' = [conn EXCEPT ![c] = [@ EXCEPT !.connected = FALSE, !.rooms = {}]]
    /\ tasks' = tasks (+) SetToBag({[NewTask("disconnect", c, "setOffline", conn[c].roomCode)
                                        EXCEPT !.n = ops + 1]})
    /\ UNCHANGED <<rooms, participants, messages, roomState, timers, clock,
                   inbox, roomLog, obs>>

DisconnectSetOffline(t) ==
    /\ t.kind = "disconnect" /\ t.pc = "setOffline"
    /\ participants' = setParticipantOffline(t.conn)
    /\ IF t.roomCode # 0
       THEN Suspend(t, [t EXCEPT !.pc = "getRoom"])
       ELSE Finish(t)
    /\ UNCHANGED <<rooms, messages, conn, roomState, timers, clock, ops, inbox,
                   roomLog, obs>>

DisconnectGetRoom(t) ==
    /\ t.kind = "disconnect" /\ t.pc = "getRoom"
    /\ IF getRoomByCode(t.roomCode)
       THEN Suspend(t, [t EXCEPT !.pc = "emitUpdate"])
       ELSE Finish(t)
    /\ UNCHANGED <<rooms, participants, messages, conn, roomState, timers, clock,
                   ops, inbox, roomLog, obs>>

DisconnectEmitUpdate(t) ==
    /\ t.kind = "disconnect" /\ t.pc = "emitUpdate"
    /\ roomLog' = Broadcast(roomLog, t.roomCode,
                            <<Ev("participant-update", 0, <<>>, FALSE, "disconnect", t.n)>>)
    /\ Finish(t)
    /\ UNCHANGED <<rooms, participants, messages, conn, roomState, timers, clock,
                   ops, inbox, obs>>

----------------------------------------------------------------------------
(* a store call rejects *)

\* The query awaited by handler t rejects.  send-message logs the error in
\* its catch block (server.js 407-409); start-interject has no try block, so
\* the rejection ends the handler where it stands (server.js 229-258).
StoreCallFails(t) ==
    /\ t.kind \in {"send", "interject"}
    /\ Finish(t)
    /\ UNCHANGED <<rooms, participants, messages, conn, roomState, timers, clock,
                   ops, inbox, roomLog, obs>>

----------------------------------------------------------------------------
(* Specifications *)

Step(t) ==
    \/ JoinGetRoom(t) \/ JoinGetParticipant(t) \/ JoinHasPrimary(t)
    \/ JoinUpsert(t) \/ JoinGetMessages(t) \/ JoinEmitUpdate(t)
    \/ SendGetRoom(t) \/ SendCheckId(t) \/ SendHasPrimary(t) \/ SendUpsert(t)
    \/ SendEmitUpdate(t) \/ SendGetRoles(t) \/ SendSave(t) \/ SendMarkDelivered(t)
    \/ TimerMarkReleased(t)
    \/ InterjectBlock(t) \/ InterjectRelease(t)
    \/ ToggleGetRoom(t) \/ ToggleSetPause(t) \/ ToggleSelectHeld(t)
    \/ ToggleUpdateHeld(t)
    \/ ReadMarkRead(t)
    \/ DisconnectSetOffline(t) \/ DisconnectGetRoom(t) \/ DisconnectEmitUpdate(t)

\* a socket that has connected and sent nothing yet
FreshSocket ==
    [roomCode |-> 0, role |-> "none", clientId |-> 0, isPrimaryHuman |-> FALSE,
     displayName |-> <<>>, rooms |-> {}, connected |-> TRUE]

\* a socket after join-room without a participant ID, in a room that has no
\* primary human yet
JoinedSocket(roomCode, role) ==
    [FreshSocket EXCEPT !.roomCode = roomCode, !.role = role, !.rooms = {roomCode},
                        !.isPrimaryHuman = (role = "human")]

\* a socket after its first send-message in the room
BoundSocket(roomCode, role, clientId, isPrimaryHuman) ==
    [FreshSocket EXCEPT !.roomCode = roomCode, !.role = role, !.rooms = {roomCode},
                        !.clientId = clientId, !.isPrimaryHuman = isPrimaryHuman,
                        !.displayName = DisplayName(role, isPrimaryHuman, clientId)]

ParticipantOf(c, s) ==
    [client_id |-> s.clientId, role |-> s.role, display_name |-> s.displayName,
     is_primary_human |-> s.isPrimaryHuman, socket_id |-> c, is_online |-> TRUE]

\* the stored row of the first message of socket c, sent more than ten seconds
\* ago; queued tells whether an AI recipient was in the room at that time, in
\* which case the delay timer has released the message since
EarlierMessage(roomCode, c, role, status, queued) ==
    [room |-> roomCode, senderSocketId |-> c, senderRole |-> role,
     senderDisplayName |-> conn[c].displayName, status |-> status,
     emergencyInterject |-> FALSE, heldForAi |-> FALSE, delayed |-> (role = "ai"),
     due |-> (role = "ai"), blocked |-> FALSE, released |-> queued, n |-> 0,
     savedHeld |-> FALSE, queued |-> queued]

\* no handler is running and no timer is scheduled; inbox and roomLog record
\* the events emitted from this state on
InitQuiet ==
    /\ roomState = [r \in RoomCodes |-> [interjectActive |-> FALSE, pending |-> <<>>]]
    /\ timers = {}
    /\ clock = 0
    /\ tasks = EmptyBag
    /\ ops = 0
    /\ inbox = [c \in Conns |-> <<>>]
    /\ roomLog = [r \in RoomCodes |-> <<>>]

InitStore ==
    /\ rooms = [r \in Rooms |-> [pause_ai |-> FALSE]]
    /\ InitQuiet

\* the server after start-up, three sockets connected
Init ==
    /\ InitStore
    /\ messages = <<>>
    /\ participants = [r \in Rooms |-> <<>>]
    /\ conn = [c \in Conns |-> FreshSocket]
    /\ obs = {}

Next ==
    \/ \E c \in Conns, r \in RoomCodes, role \in Roles, id \in ClientIds \cup {0, BadClientId} :
           JoinRoom(c, r, role, id)
    \/ \E c \in Conns, r \in RoomCodes, role \in Roles : SetRole(c, r, role)
    \/ \E c \in Conns, r \in RoomCodes, e \in BOOLEAN : SendMessage(c, r, e)
    \/ \E c \in Conns, r \in RoomCodes : StartInterject(c, r)
    \/ \E c \in Conns, r \in RoomCodes, p \in BOOLEAN : TogglePauseAi(c, r, p)
    \/ \E c \in Conns, m \in 1..Len(messages) : MarkRead(c, <<m>>)
    \/ \E c \in Conns : Disconnect(c)
    \/ \E id \in 1..MaxMsgs : TimerFire(id)
    \/ \E t \in Running : Step(t)

Spec == Init /\ [][Next]_vars

(* Identity binding.  Sockets 1 and 2 have joined room 1 without a         *)
(* participant ID while the room had no primary human; socket 3 has either *)
(* done nothing or joined after them and sent its first message, which     *)
(* bound identity 1.  Joins, role changes and first sends interleave.      *)
InitBind ==
    /\ InitStore
    /\ \E r2 \in Roles, r3 \in Roles \cup {"none"} :
          /\ conn = [c \in Conns |->
                       IF c = 1 THEN JoinedSocket(1, "human")
                       ELSE IF c = 2 THEN JoinedSocket(1, r2)
                       ELSE IF r3 = "none" THEN FreshSocket
                       ELSE BoundSocket(1, r3, 1, r3 = "human")]
          /\ participants = [r \in Rooms |->
                       IF r = 1 /\ r3 # "none"
                       THEN <<ParticipantOf(3, BoundSocket(1, r3, 1, r3 = "human"))>>
                       ELSE <<>>]
          /\ messages = IF r3 = "none" THEN <<>>
                        ELSE <<EarlierMessage(1, 3, r3, "delivered",
                                              r3 = "ai" /\ r2 = "ai")>>
    /\ obs = {"chat-error"}

NextBind ==
    \/ \E c \in {1, 2}, role \in Roles, id \in {0, 1} : JoinRoom(c, 1, role, id)
    \/ \E c \in {1, 2}, role \in Roles : SetRole(c, 1, role)
    \/ \E c \in {1, 2} : SendMessage(c, 1, FALSE)
    \/ \E t \in Running : JoinGetRoom(t)
    \/ \E t \in Running : JoinGetParticipant(t)
    \/ \E t \in Running : JoinHasPrimary(t)
    \/ \E t \in Running : JoinUpsert(t)
    \/ \E t \in Running : JoinGetMessages(t)
    \/ \E t \in Running : JoinEmitUpdate(t)
    \/ \E t \in Running : SendGetRoom(t)
    \/ \E t \in Running : SendCheckId(t)
    \/ \E t \in Running : SendHasPrimary(t)
    \/ \E t \in Running : SendUpsert(t)
    \/ \E t \in Running : SendEmitUpdate(t)
    \/ \E t \in Running : SendGetRoles(t)
    \/ \E t \in Running : SendSave(t)
    \/ \E t \in Running : SendMarkDelivered(t)

SpecBind == InitBind /\ [][NextBind]_vars

\* the stored row and the pending entry of an AI message that socket c sent
\* at time 0 while another AI socket was in the room
QueuedMessage(roomCode, c) ==
    [room |-> roomCode, senderSocketId |-> c, senderRole |-> "ai",
     senderDisplayName |-> conn[c].displayName, status |-> "delivered",
     emergencyInterject |-> FALSE, heldForAi |-> FALSE, delayed |-> TRUE,
     due |-> FALSE, blocked |-> FALSE, released |-> FALSE, n |-> 0,
     savedHeld |-> FALSE, queued |-> TRUE]

QueuedEntry(id, c) ==
    [messageId |-> id, senderSocketId |-> c,
     releaseAt |-> AI_MESSAGE_DELAY_MS, createdAt |-> 0, blocked |-> FALSE]

(* Delay queue and interjection.  In room 1 socket 1 is the bound primary  *)
(* human (message 1, sent while it was alone), socket 2 a bound AI         *)
(* (message 2, sent long ago to the human) and socket 3 an AI that joined  *)
(* afterwards and has not sent yet.  Either nothing else has been sent, or *)
(* socket 2 has sent message 3 less than ten seconds ago, so that it waits *)
(* in the delay queue.                                                     *)
QueuedOrIdle ==
    /\ conn = [c \in Conns |->
                 IF c = 1 THEN BoundSocket(1, "human", 1, TRUE)
                 ELSE IF c = 2 THEN BoundSocket(1, "ai", 2, FALSE)
                 ELSE JoinedSocket(1, "ai")]
    /\ participants = [r \in Rooms |->
                 IF r = 1 THEN <<ParticipantOf(1, conn[1]), ParticipantOf(2, conn[2])>>
                 ELSE <<>>]
    /\ rooms = [r \in Rooms |-> [pause_ai |-> FALSE]]
    /\ tasks = EmptyBag
    /\ ops = 0
    /\ inbox = [c \in Conns |-> <<>>]
    /\ roomLog = [r \in RoomCodes |-> <<>>]
    /\ \E first \in {<<EarlierMessage(1, 1, "human", "sent", FALSE),
                        EarlierMessage(1, 2, "ai", "delivered", FALSE)>>} :
          \/ /\ messages = first
             /\ roomState = [r \in RoomCodes |-> [interjectActive |-> FALSE, pending |-> <<>>]]
             /\ timers = {}
             /\ clock = 0
          \/ /\ messages = Append(first, QueuedMessage(1, 2))
             /\ roomState = [r \in RoomCodes |->
                   [interjectActive |-> FALSE,
                    pending |-> IF r = 1 THEN <<QueuedEntry(3, 2)>> ELSE <<>>]]
             /\ timers = {3}
             /\ clock \in {0, 1}

InitDelay ==
    /\ QueuedOrIdle
    /\ obs = {"message-new"}

NextDelay ==
    \/ \E c \in {1, 2}, e \in BOOLEAN : SendMessage(c, 1, e)
    \/ \E c \in {1, 2} : StartInterject(c, 1)
    \/ \E id \in 1..MaxMsgs : TimerFire(id)
    \/ \E t \in Running : TimerMarkReleased(t)
    \/ \E t \in Running : InterjectBlock(t)
    \/ \E t \in Running : InterjectRelease(t)
    \/ \E t \in Running : SendGetRoom(t)
    \/ \E t \in Running : SendGetRoles(t)
    \/ \E t \in Running : SendSave(t)
    \/ \E t \in Running : SendMarkDelivered(t)

SpecDelay == InitDelay /\ [][NextDelay]_vars

\* the stored row of a human message that socket c sent while the room was
\* paused and a human was present
HeldMessage(roomCode, c) ==
    [room |-> roomCode, senderSocketId |-> c, senderRole |-> "human",
     senderDisplayName |-> conn[c].displayName, status |-> "delivered",
     emergencyInterject |-> FALSE, heldForAi |-> TRUE, delayed |-> FALSE,
     due |-> FALSE, blocked |-> FALSE, released |-> FALSE, n |-> 0,
     savedHeld |-> TRUE, queued |-> FALSE]

(* Pause gate.  In room 1 socket 1 is the bound primary human (message 1), *)
(* socket 2 a second bound human (message 2) and socket 3 an AI that has   *)
(* joined; the primary human has switched pause on.  Either nothing has    *)
(* been sent since, or socket 2 has sent message 3, which is held.         *)
InitPause ==
    /\ InitQuiet
    /\ rooms = [r \in Rooms |-> [pause_ai |-> (r = 1)]]
    /\ conn = [c \in Conns |->
                 IF c = 1 THEN BoundSocket(1, "human", 1, TRUE)
                 ELSE IF c = 2 THEN BoundSocket(1, "human", 2, FALSE)
                 ELSE JoinedSocket(1, "ai")]
    /\ participants = [r \in Rooms |->
                 IF r = 1 THEN <<ParticipantOf(1, conn[1]), ParticipantOf(2, conn[2])>>
                 ELSE <<>>]
    /\ \E first \in {<<EarlierMessage(1, 1, "human", "sent", FALSE),
                        EarlierMessage(1, 2, "human", "delivered", FALSE)>>} :
          messages \in {first, Append(first, HeldMessage(1, 2))}
    /\ obs = {"message-new", "chat-history", "pause-updated", "release-held-messages"}

NextPause ==
    \/ \E c \in {1, 2}, e \in BOOLEAN : SendMessage(c, 1, e)
    \/ \E c \in {1, 2}, p \in BOOLEAN : TogglePauseAi(c, 1, p)
    \/ JoinRoom(3, 1, "ai", 0)
    \/ \E t \in Running : JoinGetRoom(t)
    \/ \E t \in Running : JoinGetMessages(t)
    \/ \E t \in Running : JoinEmitUpdate(t)
    \/ \E t \in Running : SendGetRoom(t)
    \/ \E t \in Running : SendGetRoles(t)
    \/ \E t \in Running : SendSave(t)
    \/ \E t \in Running : SendMarkDelivered(t)
    \/ \E t \in Running : ToggleGetRoom(t)
    \/ \E t \in Running : ToggleSetPause(t)
    \/ \E t \in Running : ToggleSelectHeld(t)
    \/ \E t \in Running : ToggleUpdateHeld(t)

SpecPause == InitPause /\ [][NextPause]_vars

(* Who may pause and interject.  Socket 1 is the bound primary human of    *)
(* room 1.  Either sockets 2 (human) and 3 (AI) joined room 1 before       *)
(* socket 1 sent its first message and have not sent yet, and the room is  *)
(* unpaused or paused with one held message of socket 1; or sockets 2 and  *)
(* 3 are AIs in room 2, which has no human, and message 3 of socket 2      *)
(* waits in the delay queue of room 2.                                     *)
InitAuth ==
    /\ tasks = EmptyBag
    /\ ops = 0
    /\ inbox = [c \in Conns |-> <<>>]
    /\ roomLog = [r \in RoomCodes |-> <<>>]
    /\ obs = {"message-new", "pause-updated", "release-held-messages", "interject-updated"}
    /\ \/ /\ conn = [c \in Conns |->
                       IF c = 1 THEN BoundSocket(1, "human", 1, TRUE)
                       ELSE IF c = 2 THEN JoinedSocket(1, "human")
                       ELSE JoinedSocket(1, "ai")]
          /\ participants = [r \in Rooms |->
                       IF r = 1 THEN <<ParticipantOf(1, conn[1])>> ELSE <<>>]
          /\ \E p \in BOOLEAN :
                /\ rooms = [r \in Rooms |-> [pause_ai |-> (r = 1 /\ p)]]
                /\ messages = <<EarlierMessage(1, 1, "human", "delivered", FALSE)>>
                               \o (IF p THEN <<HeldMessage(1, 1)>> ELSE <<>>)
          /\ roomState = [r \in RoomCodes |-> [interjectActive |-> FALSE, pending |-> <<>>]]
          /\ timers = {}
          /\ clock = 0
       \/ /\ conn = [c \in Conns |->
                       IF c = 1 THEN BoundSocket(1, "human", 1, TRUE)
                       ELSE IF c = 2 THEN BoundSocket(2, "ai", 1, FALSE)
                       ELSE JoinedSocket(2, "ai")]
          /\ participants = [r \in Rooms |-> <<ParticipantOf(r, conn[r])>>]
          /\ rooms = [r \in Rooms |-> [pause_ai |-> FALSE]]
          /\ messages = <<EarlierMessage(1, 1, "human", "sent", FALSE),
                          EarlierMessage(2, 2, "ai", "sent", FALSE),
                          QueuedMessage(2, 2)>>
          /\ roomState = [r \in RoomCodes |->
                [interjectActive |-> FALSE,
                 pending |-> IF r = 2 THEN <<QueuedEntry(3, 2)>> ELSE <<>>]]
          /\ timers = {3}
          /\ clock \in {0, 1}

NextAuth ==
    \/ \E c \in Conns, r \in Rooms, p \in BOOLEAN : TogglePauseAi(c, r, p)
    \/ \E c \in Conns, r \in Rooms : StartInterject(c, r)
    \/ \E c \in Conns, m \in 1..Len(messages) : MarkRead(c, <<m>>)
    \/ \E id \in 1..MaxMsgs : TimerFire(id)
    \/ \E t \in Running : TimerMarkReleased(t)
    \/ \E t \in Running : InterjectBlock(t)
    \/ \E t \in Running : InterjectRelease(t)
    \/ \E t \in Running : ToggleGetRoom(t)
    \/ \E t \in Running : ToggleSetPause(t)
    \/ \E t \in Running : ToggleSelectHeld(t)
    \/ \E t \in Running : ToggleUpdateHeld(t)
    \/ \E t \in Running : ReadMarkRead(t)

SpecAuth == InitAuth /\ [][NextAuth]_vars

(* Delivery and read status.  In room 1 socket 1 is the bound primary      *)
(* human (message 1), socket 2 a bound AI (message 2, sent long ago to the *)
(* human) and socket 3 an AI that joined afterwards.  Sockets send, mark   *)
(* messages read and disconnect.                                           *)
HumanAndTwoAis ==
    /\ InitStore
    /\ conn = [c \in Conns |->
                 IF c = 1 THEN BoundSocket(1, "human", 1, TRUE)
                 ELSE IF c = 2 THEN BoundSocket(1, "ai", 2, FALSE)
                 ELSE JoinedSocket(1, "ai")]
    /\ participants = [r \in Rooms |->
                 IF r = 1 THEN <<ParticipantOf(1, conn[1]), ParticipantOf(2, conn[2])>>
                 ELSE <<>>]
    /\ messages = <<EarlierMessage(1, 1, "human", "sent", FALSE),
                    EarlierMessage(1, 2, "ai", "delivered", FALSE)>>

InitStatus ==
    /\ HumanAndTwoAis
    /\ obs = {"message-new", "message-status", "messages-read"}

NextStatus ==
    \/ \E c \in {1, 2}, e \in BOOLEAN : SendMessage(c, 1, e)
    \/ \E c \in Conns, m \in 1..Len(messages) : MarkRead(c, <<m>>)
    \/ \E c \in Conns : Disconnect(c)
    \/ \E id \in 1..MaxMsgs : TimerFire(id)
    \/ \E t \in Running : TimerMarkReleased(t)
    \/ \E t \in Running : SendGetRoom(t)
    \/ \E t \in Running : SendGetRoles(t)
    \/ \E t \in Running : SendSave(t)
    \/ \E t \in Running : SendMarkDelivered(t)
    \/ \E t \in Running : ReadMarkRead(t)
    \/ \E t \in Running : DisconnectSetOffline(t)
    \/ \E t \in Running : DisconnectGetRoom(t)
    \/ \E t \in Running : DisconnectEmitUpdate(t)

SpecStatus == InitStatus /\ [][NextStatus]_vars

(* Arming and disarming.  In room 1 socket 1 is the bound primary human    *)
(* (message 1), socket 2 a second bound human (message 2) and socket 3 an  *)
(* AI that has joined.  The primary human may have switched pause on.      *)
InitArm ==
    /\ InitQuiet
    /\ \E p \in BOOLEAN : rooms = [r \in Rooms |-> [pause_ai |-> (r = 1 /\ p)]]
    /\ conn = [c \in Conns |->
                 IF c = 1 THEN BoundSocket(1, "human", 1, TRUE)
                 ELSE IF c = 2 THEN BoundSocket(1, "human", 2, FALSE)
                 ELSE JoinedSocket(1, "ai")]
    /\ participants = [r \in Rooms |->
                 IF r = 1 THEN <<ParticipantOf(1, conn[1]), ParticipantOf(2, conn[2])>>
                 ELSE <<>>]
    /\ messages = <<EarlierMessage(1, 1, "human", "sent", FALSE),
                    EarlierMessage(1, 2, "human", "delivered", FALSE)>>
    /\ obs = {"message-new", "interject-updated"}

NextArm ==
    \/ \E c \in {1, 2}, e \in BOOLEAN : SendMessage(c, 1, e)
    \/ \E c \in Conns : StartInterject(c, 1)
    \/ \E c \in Conns, p \in BOOLEAN : TogglePauseAi(c, 1, p)
    \/ \E c \in Conns : Disconnect(c)
    \/ \E t \in Running : SendGetRoom(t)
    \/ \E t \in Running : SendGetRoles(t)
    \/ \E t \in Running : SendSave(t)
    \/ \E t \in Running : SendMarkDelivered(t)
    \/ \E t \in Running : ToggleGetRoom(t)
    \/ \E t \in Running : ToggleSetPause(t)
    \/ \E t \in Running : ToggleSelectHeld(t)
    \/ \E t \in Running : ToggleUpdateHeld(t)
    \/ \E t \in Running : DisconnectSetOffline(t)
    \/ \E t \in Running : DisconnectGetRoom(t)
    \/ \E t \in Running : DisconnectEmitUpdate(t)

SpecArm == InitArm /\ [][NextArm]_vars

(* Leaving with a message in the queue: the state of InitDelay in which    *)
(* message 3 of socket 2 waits in the delay queue of room 1.  Sockets      *)
(* disconnect, the primary human interjects, the timer expires.            *)
InitLeave == InitDelay /\ timers # {}

NextLeave ==
    \/ \E c \in Conns : Disconnect(c)
    \/ \E c \in Conns : StartInterject(c, 1)
    \/ \E id \in 1..MaxMsgs : TimerFire(id)
    \/ \E t \in Running : TimerMarkReleased(t)
    \/ \E t \in Running : InterjectBlock(t)
    \/ \E t \in Running : InterjectRelease(t)
    \/ \E t \in Running : DisconnectSetOffline(t)
    \/ \E t \in Running : DisconnectGetRoom(t)
    \/ \E t \in Running : DisconnectEmitUpdate(t)

SpecLeave == InitLeave /\ [][NextLeave]_vars

(* Expiry after a flush.  As in the delay-queue scenario with message 3     *)
(* queued; then the primary human has started an interjection and, while    *)
(* its handler was suspended on the store, socket 2 has sent message 4.     *)
(* The handler has flushed message 3 and emptied the pending list, message  *)
(* 4 keeps its timer, and the room is still interject-active.               *)
InitExpire ==
    /\ conn = [c \in Conns |->
                 IF c = 1 THEN BoundSocket(1, "human", 1, TRUE)
                 ELSE IF c = 2 THEN BoundSocket(1, "ai", 2, FALSE)
                 ELSE JoinedSocket(1, "ai")]
    /\ participants = [r \in Rooms |->
                 IF r = 1 THEN <<ParticipantOf(1, conn[1]), ParticipantOf(2, conn[2])>>
                 ELSE <<>>]
    /\ rooms = [r \in Rooms |-> [pause_ai |-> FALSE]]
    /\ messages = <<EarlierMessage(1, 1, "human", "sent", FALSE),
                    EarlierMessage(1, 2, "ai", "delivered", FALSE),
                    [QueuedMessage(1, 2) EXCEPT !.blocked = TRUE, !.released = TRUE],
                    QueuedMessage(1, 2)>>
    /\ roomState = [r \in RoomCodes |->
                      [interjectActive |-> (r = 1), pending |-> <<>>]]
    /\ timers = {4}
    /\ clock = 1
    /\ tasks = EmptyBag
    /\ ops = 0
    /\ inbox = [c \in Conns |-> <<>>]
    /\ roomLog = [r \in RoomCodes |-> <<>>]
    /\ obs = {"message-new"}

SpecExpire == InitExpire /\ [][NextDelay]_vars

(* Enqueueing.  The sockets of the delivery scenario: the primary human,   *)
(* a bound AI and an AI that has joined.  Sockets send and disconnect, and *)
(* delay timers expire; the pending-list broadcasts are recorded.          *)
InitEnqueue ==
    /\ HumanAndTwoAis
    /\ obs = {"message-new", "pending-delay-update"}

NextEnqueue ==
    \/ \E c \in {1, 2}, e \in BOOLEAN : SendMessage(c, 1, e)
    \/ \E c \in Conns : Disconnect(c)
    \/ \E id \in 1..MaxMsgs : TimerFire(id)
    \/ \E t \in Running : TimerMarkReleased(t)
    \/ \E t \in Running : SendGetRoom(t)
    \/ \E t \in Running : SendGetRoles(t)
    \/ \E t \in Running : SendSave(t)
    \/ \E t \in Running : SendMarkDelivered(t)
    \/ \E t \in Running : DisconnectSetOffline(t)
    \/ \E t \in Running : DisconnectGetRoom(t)
    \/ \E t \in Running : DisconnectEmitUpdate(t)

SpecEnqueue == InitEnqueue /\ [][NextEnqueue]_vars

(* Store failures.  The delay-queue scenario with message 3 queued, in    *)
(* which any store call of a send-message or start-interject handler may   *)
(* reject; the message, status and interjection events are recorded.       *)
InitFail ==
    /\ QueuedOrIdle
    /\ timers # {}
    /\ obs = {"message-new", "message-status", "interject-updated"}

NextFail ==
    \/ \E c \in {1, 2}, e \in BOOLEAN : SendMessage(c, 1, e)
    \/ \E c \in {1, 2} : StartInterject(c, 1)
    \/ \E id \in 1..MaxMsgs : TimerFire(id)
    \/ \E t \in Running : TimerMarkReleased(t)
    \/ \E t \in Running : InterjectBlock(t)
    \/ \E t \in Running : InterjectRelease(t)
    \/ \E t \in Running : SendGetRoom(t)
    \/ \E t \in Running : SendGetRoles(t)
    \/ \E t \in Running : SendSave(t)
    \/ \E t \in Running : SendMarkDelivered(t)
    \/ \E t \in Running : StoreCallFails(t)

SpecFail == InitFail /\ [][NextFail]_vars

(* First sends.  The identity-binding scenario in which sockets 1 and 2    *)
(* only send: each may emit send-message twice before the first handler    *)
(* has bound its identity.                                                 *)
NextMint ==
    \/ \E c \in {1, 2} : SendMessage(c, 1, FALSE)
    \/ \E t \in Running : SendGetRoom(t)
    \/ \E t \in Running : SendCheckId(t)
    \/ \E t \in Running : SendHasPrimary(t)
    \/ \E t \in Running : SendUpsert(t)
    \/ \E t \in Running : SendEmitUpdate(t)
    \/ \E t \in Running : SendGetRoles(t)
    \/ \E t \in Running : SendSave(t)
    \/ \E t \in Running : SendMarkDelivered(t)

SpecMint == InitBind /\ [][NextMint]_vars

(* A sender alone.  In room 1 socket 1 is the bound primary human, which    *)
(* sent message 1 while nobody else was in the room; sockets 2 and 3 have   *)
(* connected but not joined.  Sockets join without a participant ID and     *)
(* send.                                                                    *)
InitAlone ==
    /\ InitStore
    /\ conn = [c \in Conns |->
                 IF c = 1 THEN BoundSocket(1, "human", 1, TRUE) ELSE FreshSocket]
    /\ participants = [r \in Rooms |->
                 IF r = 1 THEN <<ParticipantOf(1, conn[1])>> ELSE <<>>]
    /\ messages = <<EarlierMessage(1, 1, "human", "sent", FALSE)>>
    /\ obs = {"message-new", "message-status"}

NextAlone ==
    \/ \E c \in {2, 3}, role \in Roles : JoinRoom(c, 1, role, 0)
    \/ \E c \in {1, 2} : SendMessage(c, 1, FALSE)
    \/ \E t \in Running : JoinGetRoom(t)
    \/ \E t \in Running : JoinHasPrimary(t)
    \/ \E t \in Running : JoinGetMessages(t)
    \/ \E t \in Running : JoinEmitUpdate(t)
    \/ \E t \in Running : SendGetRoom(t)
    \/ \E t \in Running : SendCheckId(t)
    \/ \E t \in Running : SendHasPrimary(t)
    \/ \E t \in Running : SendUpsert(t)
    \/ \E t \in Running : SendEmitUpdate(t)
    \/ \E t \in Running : SendGetRoles(t)
    \/ \E t \in Running : SendSave(t)
    \/ \E t \in Running : SendMarkDelivered(t)

SpecAlone == InitAlone /\ [][NextAlone]_vars

(* History for an AI.  The delay-queue scenario in which socket 3, the AI  *)
(* that has joined, joins again (a page reload) while the primary human     *)
(* may start an interjection and delay timers expire; the history           *)
(* snapshots are recorded.                                                  *)
InitHistory ==
    /\ QueuedOrIdle
    /\ obs = {"chat-history", "message-new"}

NextHistory ==
    \/ JoinRoom(3, 1, "ai", 0)
    \/ StartInterject(1, 1)
    \/ \E id \in 1..MaxMsgs : TimerFire(id)
    \/ \E t \in Running : TimerMarkReleased(t)
    \/ \E t \in Running : InterjectBlock(t)
    \/ \E t \in Running : InterjectRelease(t)
    \/ \E t \in Running : JoinGetRoom(t)
    \/ \E t \in Running : JoinGetMessages(t)
    \/ \E t \in Running : JoinEmitUpdate(t)

SpecHistory == InitHistory /\ [][NextHistory]_vars

(* The delay-queue scenario in which every scheduled timer eventually      *)
(* expires and every store call that a handler awaits eventually returns.  *)
SpecDelayFair ==
    /\ SpecDelay
    /\ WF_vars(\E id \in 1..MaxMsgs : TimerFire(id))
    /\ WF_vars(\E t \in Running : TimerMarkReleased(t))
    /\ WF_vars(\E t \in Running : InterjectBlock(t))
    /\ WF_vars(\E t \in Running : InterjectRelease(t))
    /\ WF_vars(\E t \in Running : SendGetRoom(t))
    /\ WF_vars(\E t \in Running : SendGetRoles(t))
    /\ WF_vars(\E t \in Running : SendSave(t))
    /\ WF_vars(\E t \in Running : SendMarkDelivered(t))

----------------------------------------------------------------------------
(* Claims *)

PrimaryRows(r) == {i \in 1..Len(participants[r]) : participants[r][i].is_primary_human}
HumanRows(r) == {i \in 1..Len(participants[r]) : participants[r][i].role = "human"}

\* C1: in every room at most one participant record has primary-human=true,
\* and it is the record of the first human identity bound in the room.
C1_SinglePrimaryHuman ==
    \A r \in Rooms :
        /\ Cardinality(PrimaryRows(r)) <= 1
        /\ \A i \in PrimaryRows(r) : i \in HumanRows(r) /\ \A j \in HumanRows(r) : i <= j

\* socket.data.clientId names a stored participant of the socket's room
IdentityBound(c) ==
    /\ conn[c].clientId # 0
    /\ conn[c].roomCode \in Rooms
    /\ getParticipantByClient(conn[c].roomCode, conn[c].clientId) # NoPart

\* a join-room handler has just run server.js 141-149
JoinEntered(u) ==
    /\ u.kind = "join"
    /\ u.pc = (IF u.existing # NoPart THEN "upsert" ELSE "getMessages")
    /\ CopiesIn(u, tasks') > CopiesIn(u, tasks)

\* C10: a bound identity keeps its stored role under every join, set-role and
\* send-message step; a join that finds the identity in the store puts the
\* connection under the stored role; the role of a connection whose identity
\* is bound is changed by no set-role and no send-message, only by a join.
C10_RoleLocked ==
    [][/\ \A r \in Rooms : \A i \in 1..Len(participants[r]) :
             /\ Len(participants'[r]) >= i
             /\ participants'[r][i].client_id = participants[r][i].client_id
             /\ participants'[r][i].role = participants[r][i].role
       /\ \A u \in BagToSet(tasks') :
             (JoinEntered(u) /\ u.existing # NoPart) =>
                /\ conn'[u.conn].clientId = u.clientId
                /\ conn'[u.conn].role = getParticipantByClient(u.roomCode, u.clientId).role
       /\ \A c \in Conns :
             (IdentityBound(c) /\ conn'[c].role # conn[c].role) =>
                \E u \in BagToSet(tasks') : u.conn = c /\ JoinEntered(u)
      ]_vars

\* a join with a known identity asked for the other role, runs under the
\* stored one, and a set-role on that connection was refused
C10_Witness ==
    \E t \in Running :
        /\ t.kind = "join" /\ t.pc \in {"upsert", "getMessages", "emitUpdate"}
        /\ t.existing # NoPart
        /\ t.want # t.existing.role
        /\ conn[t.conn].role = t.existing.role
        /\ \E i \in 1..Len(inbox[t.conn]) :
              inbox[t.conn][i].type = "chat-error" /\ inbox[t.conn][i].cause = "set-role"

\* positions in the events of connection c where message m reached it through
\* the delay timer or through an interjection flush
AiReleases(c, m) ==
    {i \in 1..Len(inbox[c]) :
        /\ inbox[c][i].type = "message-new"
        /\ inbox[c][i].msg = m
        /\ inbox[c][i].cause \in {"timer", "flush"}}

FlushesOf(c, m) == {i \in AiReleases(c, m) : inbox[c][i].cause = "flush"}

\* C2: an AI-authored message reaches each AI connection at most once,
\* counting the timer release and the interjection flushes together.
C2_AtMostOnce ==
    \A c \in Conns : \A m \in 1..Len(messages) :
        messages[m].senderRole = "ai" => Cardinality(AiReleases(c, m)) <= 1

\* message m is still waiting: in the queue, on its timer, or in the hands of
\* a running flush or timer callback
InFlight(m) ==
    \/ m \in timers
    \/ \E i \in 1..Len(roomState[messages[m].room].pending) :
          roomState[messages[m].room].pending[i].messageId = m
    \/ \E t \in Running :
          \/ t.kind = "timer" /\ t.msg = m
          \/ t.kind = "interject" /\ \E i \in 1..Len(t.queue) : t.queue[i].messageId = m

\* C3: an enqueued AI message that is no longer waiting anywhere has reached
\* the AI connections of its room (a lost message is never delivered later).
C3_NeverLost ==
    \A m \in 1..Len(messages) :
        (messages[m].queued /\ ~InFlight(m)) =>
            \A c \in AiMembersExcept(messages[m].room, messages[m].senderSocketId) :
                AiReleases(c, m) # {}

Min(S) == CHOOSE x \in S : \A y \in S : x <= y

\* C4: of two messages flushed to the same AI connection, the one enqueued
\* first (the lower message id) arrives first.
C4_FlushFifo ==
    \A c \in Conns : \A a, b \in 1..Len(messages) :
        (a < b /\ FlushesOf(c, a) # {} /\ FlushesOf(c, b) # {}) =>
            Min(FlushesOf(c, a)) < Min(FlushesOf(c, b))

\* an AI connection received two queued messages from one flush, in the
\* order of their enqueuing
C4_Witness ==
    \E c \in Conns : \E a, b \in 1..Len(messages) :
        /\ a < b
        /\ FlushesOf(c, a) # {} /\ FlushesOf(c, b) # {}
        /\ \E i \in FlushesOf(c, a), j \in FlushesOf(c, b) :
               i < j /\ inbox[c][i].by = inbox[c][j].by
        /\ messages[a].blocked /\ messages[b].blocked

\* C5: no AI connection receives a message flushed by a start-interject after
\* the interjection message that the primary human sent after that
\* start-interject.
C5_FlushBeforeInterjection ==
    \A c \in Conns : \A i, j \in 1..Len(inbox[c]) :
        ~ /\ i < j
          /\ conn[c].role = "ai"
          /\ inbox[c][i].type = "message-new" /\ inbox[c][i].cause = "send"
          /\ inbox[c][i].flag
          /\ inbox[c][j].type = "message-new" /\ inbox[c][j].cause = "flush"
          /\ inbox[c][j].by < inbox[c][i].by

\* the messages an event hands to its receiver
EventMessages(e) ==
    IF e.type = "chat-history" THEN Range(e.ids)
    ELSE IF e.type = "message-new" THEN {e.msg}
    ELSE {}

\* C6: no step emits to an AI-role connection a new-message or a history
\* snapshot that carries a human message whose held-for-ai flag is set.
C6_HeldInvisibleToAi ==
    [][\A c \in Conns :
          conn'[c].role = "ai" =>
             \A i \in (Len(inbox[c]) + 1)..Len(inbox'[c]) :
                \A m \in EventMessages(inbox'[c][i]) :
                   ~(messages'[m].senderRole = "human" /\ messages'[m].heldForAi)
      ]_vars

\* positions of the release-held-messages notices of room r that list m
NoticesOf(r, m) ==
    {i \in 1..Len(roomLog[r]) :
        /\ roomLog[r][i].type = "release-held-messages"
        /\ m \in Range(roomLog[r][i].ids)}

\* C7: a message saved as held is listed in at most one release notice, in
\* exactly one once its flag is cleared; every notice lists ids in ascending
\* order; and when pause is off and no handler is running, no message of the
\* room is still held.
C7_ReleasedOnce ==
    /\ \A m \in 1..Len(messages) :
          messages[m].savedHeld =>
             /\ Cardinality(NoticesOf(messages[m].room, m)) <= 1
             /\ ~messages[m].heldForAi => NoticesOf(messages[m].room, m) # {}
             /\ (tasks = EmptyBag /\ ~rooms[messages[m].room].pause_ai)
                   => ~messages[m].heldForAi
    /\ \A r \in Rooms : \A i \in 1..Len(roomLog[r]) :
          roomLog[r][i].type = "release-held-messages" =>
             \A j, k \in 1..Len(roomLog[r][i].ids) :
                j < k => roomLog[r][i].ids[j] < roomLog[r][i].ids[k]

\* connection c carries the identity stored as the primary human of room r
BoundPrimary(c, r) ==
    /\ r \in Rooms
    /\ conn[c].roomCode = r
    /\ conn[c].clientId # 0
    /\ LET p == getParticipantByClient(r, conn[c].clientId)
       IN p # NoPart /\ p.role = "human" /\ p.is_primary_human

\* handler t has just run one of its steps
Stepped(t) == CopiesIn(t, tasks) > CopiesIn(t, tasks')

\* C8: a pause flag changes, a held flag is cleared and a pause-updated or
\* release-held-messages event goes out only in a step of a toggle-pause-ai
\* handler whose connection is the bound primary human of that room.
C8_PauseOnlyByPrimary ==
    [][\A r \in Rooms :
          /\ \A i \in (Len(roomLog[r]) + 1)..Len(roomLog'[r]) :
                roomLog'[r][i].type \in {"pause-updated", "release-held-messages"}
                   => BoundPrimary(roomLog'[r][i].msg, r)
          /\ (\/ rooms'[r].pause_ai # rooms[r].pause_ai
              \/ \E m \in 1..Len(messages) :
                    /\ messages[m].room = r
                    /\ messages[m].heldForAi /\ ~messages'[m].heldForAi)
                => \E t \in Running :
                      /\ t.kind = "toggle" /\ t.roomCode = r /\ Stepped(t)
                      /\ BoundPrimary(t.conn, r)
      ]_vars

\* C9: the interject flag of a room is raised, and queued messages are
\* blocked, flushed and their timers cancelled, only by a start-interject of
\* the bound primary human of that room.
C9_InterjectOnlyByPrimary ==
    [][/\ \A u \in BagToSet(tasks') :
             u.kind = "interject" => BoundPrimary(u.conn, u.roomCode)
       /\ \A r \in RoomCodes :
             (~roomState[r].interjectActive /\ roomState'[r].interjectActive) =>
                \/ \E u \in BagToSet(tasks') :
                      /\ u.kind = "interject" /\ u.roomCode = r
                      /\ CopiesIn(u, tasks') > CopiesIn(u, tasks)
                      /\ BoundPrimary(u.conn, r)
                \/ \E i \in (Len(roomLog[r]) + 1)..Len(roomLog'[r]) :
                      /\ roomLog'[r][i].type = "interject-updated"
                      /\ BoundPrimary(roomLog'[r][i].msg, r)
      ]_vars

\* C11: in the broadcasts of a room, no message-status 'delivered' of a
\* message follows a messages-read that lists the message.
C11_StatusNeverRegresses ==
    \A r \in Rooms : \A i, j \in 1..Len(roomLog[r]) :
        ~ /\ i < j
          /\ roomLog[r][i].type = "messages-read"
          /\ roomLog[r][j].type = "message-status"
          /\ roomLog[r][j].cause = "delivered"
          /\ roomLog[r][j].msg \in Range(roomLog[r][i].ids)

\* the connections other than its sender that message m was emitted to
ReachedBy(m) ==
    {c \in Conns \ {messages[m].senderSocketId} :
        \E i \in 1..Len(inbox[c]) :
            inbox[c][i].type = "message-new" /\ inbox[c][i].msg = m}

\* C12: a message sent since the initial state whose stored status is
\* 'delivered' has been emitted to a connection other than its sender.
C12_DeliveredMeansEmitted ==
    \A m \in 1..Len(messages) :
        (messages[m].n > 0 /\ messages[m].status = "delivered") => ReachedBy(m) # {}

\* this step is the save-and-route step of a send-message handler
SavedNow == Len(messages') = Len(messages) + 1

\* the new-message events for message m that this step emits to connection c
EmittedNow(c, m) ==
    {i \in (Len(inbox[c]) + 1)..Len(inbox'[c]) :
        inbox'[c][i].type = "message-new" /\ inbox'[c][i].msg = m}

\* all new-message events for message m that send-message emitted to c
EmittedBySend(c, m) ==
    {i \in 1..Len(inbox'[c]) :
        /\ inbox'[c][i].type = "message-new" /\ inbox'[c][i].msg = m
        /\ inbox'[c][i].cause = "send"}

\* C13: the step that saves a human message that is not held emits exactly
\* one new-message for it to every other connection then in the room, human
\* or AI, and send-message emits no further one.
C13_HumanImmediateToAll ==
    [][SavedNow =>
          LET m == Len(messages')
          IN (messages'[m].senderRole = "human" /\ ~messages'[m].heldForAi) =>
                \A c \in RoomMembers(messages'[m].room) \ {messages'[m].senderSocketId} :
                    /\ Cardinality(EmittedNow(c, m)) = 1
                    /\ Cardinality(EmittedBySend(c, m)) = 1
      ]_vars

\* a human message that is neither held nor an interjection has reached a
\* human and an AI connection, and its handler has finished
C13_Witness ==
    \E m \in 1..Len(messages) :
        /\ messages[m].n > 0
        /\ messages[m].senderRole = "human"
        /\ ~messages[m].savedHeld /\ ~messages[m].emergencyInterject
        /\ \E h, a \in ReachedBy(m) : conn[h].role = "human" /\ conn[a].role = "ai"
        /\ ~\E t \in Running : t.kind = "send" /\ t.n = messages[m].n

\* C14: the step that saves an AI message emits it once to every human
\* connection then in the room and to no other AI connection; an AI
\* connection other than the sender gets an AI message only from the delay
\* timer or from an interjection flush.
C14_AiDelayedForAi ==
    [][/\ SavedNow =>
             LET m == Len(messages')
             IN messages'[m].senderRole = "ai" =>
                   \A c \in RoomMembers(messages'[m].room) \ {messages'[m].senderSocketId} :
                       IF conn[c].role = "ai"
                       THEN EmittedNow(c, m) = {}
                       ELSE Cardinality(EmittedNow(c, m)) = 1
       /\ \A c \in Conns : \A i \in (Len(inbox[c]) + 1)..Len(inbox'[c]) :
             (/\ inbox'[c][i].type = "message-new"
              /\ messages'[inbox'[c][i].msg].senderRole = "ai"
              /\ messages'[inbox'[c][i].msg].senderSocketId # c
              /\ conn[c].role = "ai")
                => inbox'[c][i].cause \in {"timer", "flush"}
      ]_vars

\* an AI message has reached the human at once and the other AI later
C14_Witness ==
    \E m \in 1..Len(messages) :
        /\ messages[m].n > 0 /\ messages[m].senderRole = "ai"
        /\ \E h \in ReachedBy(m) : conn[h].role = "human"
        /\ \E a \in ReachedBy(m) : conn[a].role = "ai" /\ AiReleases(a, m) # {}

\* C15: the step that saves a human message sent with emergencyInterject
\* stores it as not held and emits it once, tagged as an interjection, to
\* every other connection then in the room, whatever the pause flag.
C15_EmergencyBypassesPause ==
    [][SavedNow =>
          LET m == Len(messages')
          IN (messages'[m].senderRole = "human" /\ messages'[m].emergencyInterject) =>
                /\ ~messages'[m].heldForAi
                /\ \A c \in RoomMembers(messages'[m].room) \ {messages'[m].senderSocketId} :
                      /\ Cardinality(EmittedNow(c, m)) = 1
                      /\ \A i \in EmittedNow(c, m) : inbox'[c][i].flag
      ]_vars

\* in a paused room an emergency message of a human was stored as not held
\* and reached a human and an AI connection with the interjection tag
C15_Witness ==
    \E m \in 1..Len(messages) :
        /\ messages[m].n > 0
        /\ messages[m].senderRole = "human" /\ messages[m].emergencyInterject
        /\ rooms[messages[m].room].pause_ai
        /\ ~messages[m].savedHeld
        /\ \E h, a \in ReachedBy(m) :
              /\ conn[h].role = "human" /\ conn[a].role = "ai"
              /\ \E i \in 1..Len(inbox[a]) :
                    inbox[a][i].msg = m /\ inbox[a][i].type = "message-new" /\ inbox[a][i].flag

\* C16: the interject flag of a room falls only in the step that saves an
\* emergency message sent to that room by its bound primary human.
C16_OnlyInterjectionDisarms ==
    [][\A r \in RoomCodes :
          (roomState[r].interjectActive /\ ~roomState'[r].interjectActive) =>
             /\ SavedNow
             /\ LET row == messages'[Len(messages')]
                IN /\ row.room = r
                   /\ row.senderRole = "human" /\ row.emergencyInterject
                   /\ BoundPrimary(row.senderSocketId, r)
      ]_vars

\* the routing state, the pause flag or a message status of room r changes
RoomChanged(r) ==
    \/ roomState'[r] # roomState[r]
    \/ rooms'[r].pause_ai # rooms[r].pause_ai
    \/ \E m \in 1..Len(messages) :
          messages[m].room = r /\ messages'[m].status # messages[m].status

\* the connections on whose behalf this step runs: the socket of the handler
\* that starts or resumes (none for a delay timer and its callback)
ActingConns(r) ==
    {t.conn : t \in {u \in Running : Stepped(u) /\ u.kind # "timer"}}
    \cup {t.conn : t \in {u \in BagToSet(tasks') :
                              ops' # ops /\ CopiesIn(u, tasks') > CopiesIn(u, tasks)}}
    \cup {roomLog'[r][i].msg : i \in {j \in (Len(roomLog[r]) + 1)..Len(roomLog'[r]) :
                                          /\ ops' # ops
                                          /\ roomLog'[r][j].type = "interject-updated"}}

\* this step is a delay timer firing or its callback resuming
TimerStep ==
    /\ ops' = ops
    /\ \A t \in Running : Stepped(t) => t.kind = "timer"

\* C17: a step taken for a connection changes the routing state, the pause
\* flag and the message statuses only of rooms that connection has joined.
C17_NoCrossRoomEffect ==
    [][\A r \in Rooms :
          (RoomChanged(r) /\ ~TimerStep) =>
             \E c \in ActingConns(r) : r \in conn[c].rooms
      ]_vars

\* this step is a socket disconnecting or its disconnect handler resuming
DisconnectStep ==
    \/ \E c \in Conns : conn[c].connected /\ ~conn'[c].connected
    \/ \E t \in Running : t.kind = "disconnect" /\ Stepped(t)

\* C18: a disconnect step changes no pending list and no timer; a timer that
\* expires outside an interjection and a flush step deliver the message to
\* the AI connections of the room also when its sender has disconnected.
C18_DisconnectKeepsQueue ==
    [][/\ DisconnectStep => (roomState' = roomState /\ timers' = timers)
       /\ \A m \in 1..Len(messages) :
             (/\ ~conn[messages[m].senderSocketId].connected
              /\ ~messages[m].due /\ messages'[m].due
              /\ ~roomState[messages[m].room].interjectActive)
                => \A c \in AiMembersExcept(messages[m].room, messages[m].senderSocketId) :
                      EmittedNow(c, m) # {}
       /\ \A t \in Running :
             (/\ t.kind = "interject" /\ t.pc = "block" /\ Stepped(t)
              /\ ~conn[Head(t.queue).senderSocketId].connected)
                => \A c \in AiMembersExcept(t.roomCode, Head(t.queue).senderSocketId) :
                      EmittedNow(c, Head(t.queue).messageId) # {}
      ]_vars

\* the sender of a queued message disconnected first, and the message then
\* reached another AI connection from the flush of the second event
C18_Witness ==
    \E m \in 1..Len(messages) : \E c \in Conns :
        /\ messages[m].queued
        /\ ~conn[messages[m].senderSocketId].connected
        /\ ops = 2
        /\ \E i \in FlushesOf(c, m) : inbox[c][i].by = 2

\* C19: the held flag stored by the save step equals the pause gate taken on
\* the state at that step: room paused, a human participant in the room,
\* sender human, message not emergency-flagged.
C19_HeldFlagAtSave ==
    [][SavedNow =>
          LET row == messages'[Len(messages')]
          IN row.heldForAi <=>
                /\ rooms[row.room].pause_ai
                /\ "human" \in getParticipantRoles(row.room)
                /\ conn[row.senderSocketId].role = "human"
                /\ ~row.emergencyInterject
      ]_vars

\* C20: whenever a connection's in-memory primary-human flag is true, the
\* participant record of that connection's identity exists in the
\* connection's room with the primary-human flag set.
C20_PrimaryFlagBacked ==
    \A c \in Conns :
        conn[c].isPrimaryHuman => BoundPrimary(c, conn[c].roomCode)

\* the start-interject handler of connection c for room r returns in this step
InterjectCompletes(c, r) ==
    \/ /\ ops' = ops + 1
       /\ MayInterject(c, r)
       /\ conn[c].connected
       /\ roomState[r].pending = <<>>
       /\ \E i \in (Len(roomLog[r]) + 1)..Len(roomLog'[r]) :
             /\ roomLog'[r][i].type = "interject-updated"
             /\ roomLog'[r][i].flag /\ roomLog'[r][i].msg = c
    \/ \E t \in Running :
          /\ t.kind = "interject" /\ t.pc = "release" /\ Stepped(t)
          /\ t.conn = c /\ t.roomCode = r
          /\ Len(t.queue) = 1

\* the delay timers of room r that are scheduled
TimersOf(r) == {id \in timers : messages[id].room = r}

\* C21: when a start-interject handler completes, every entry it has flushed
\* is stored blocked and released, the room is interject-active, its pending
\* list is empty and none of its delay timers remains scheduled.
C21_InterjectPostcondition ==
    [][/\ \A t \in Running :
             (t.kind = "interject" /\ t.pc = "release" /\ Stepped(t))
                => /\ messages'[Head(t.queue).messageId].blocked
                   /\ messages'[Head(t.queue).messageId].released
       /\ \A c \in Conns, r \in Rooms :
             InterjectCompletes(c, r)
                => /\ roomState'[r].interjectActive
                   /\ roomState'[r].pending = <<>>
                   /\ TimersOf(r)' = {}
      ]_vars

\* the messages that have an entry in the pending list of room r
PendingIds(r) == {roomState[r].pending[i].messageId : i \in 1..Len(roomState[r].pending)}

\* C22: in every state the messages of a room whose delay timer is scheduled
\* are the messages that have an entry in the room's pending list.
C22_TimersMatchPending ==
    \A r \in Rooms : TimersOf(r) = PendingIds(r)

\* C23: no pending entry is handled both by the expiry of its timer and by
\* the flush of a start-interject handler.
C23_TimerXorPreemption ==
    \A m \in 1..Len(messages) : ~(messages[m].due /\ messages[m].blocked)

\* the delay timer of message id expires in this step
TimerFires(id) == ~messages[id].due /\ messages'[id].due

\* C24: an expiry callback that runs for a message with no entry in its
\* room's pending list emits the message to no connection, marks nothing
\* released and leaves the routing state unchanged.
C24_ExpiryWithoutEntryIsNoOp ==
    [][\A id \in 1..Len(messages) :
          (TimerFires(id) /\ id \notin PendingIds(messages[id].room))
             => /\ inbox' = inbox
                /\ tasks' = tasks
                /\ roomState' = roomState
      ]_vars

C26_ExpiryDelivers ==
    [][/\ \A id \in 1..Len(messages) :
             (TimerFires(id) /\ ~roomState[messages[id].room].interjectActive)
                => /\ id \notin PendingIds(messages[id].room)'
                   /\ \A c \in Conns :
                         Cardinality(EmittedNow(c, id)) =
                            IF /\ messages[id].room \in conn[c].rooms
                               /\ c # messages[id].senderSocketId
                               /\ conn[c].role = "ai"
                            THEN 1 ELSE 0
                   /\ \E t \in BagToSet(tasks') :
                         /\ t.kind = "timer" /\ t.msg = id
                         /\ CopiesIn(t, tasks') > CopiesIn(t, tasks)
       /\ \A t \in Running :
             (t.kind = "timer" /\ Stepped(t)) => messages'[t.msg].released
      ]_vars

C26_Witness ==
    \E id \in 1..Len(messages) : \E c \in Conns :
        /\ messages[id].due /\ messages[id].released /\ ~messages[id].blocked
        /\ conn[c].role = "ai" /\ c # messages[id].senderSocketId
        /\ \E i \in 1..Len(inbox[c]) :
              /\ inbox[c][i].type = "message-new" /\ inbox[c][i].msg = id
              /\ inbox[c][i].cause = "timer"

\* the pending-list broadcasts that this step sends to room r
PendingUpdatesNow(r) ==
    {i \in (Len(roomLog[r]) + 1)..Len(roomLog'[r]) :
        roomLog'[r][i].type = "pending-delay-update"}

\* C27: the step that saves an AI message while another AI connection is in
\* the room appends one pending entry for it, due ten seconds after the send
\* time, schedules its timer and broadcasts the new pending list once; the
\* step that saves any other message leaves the pending list and the timers
\* unchanged and broadcasts no pending list.
C27_EnqueueIffAiRecipient ==
    [][SavedNow =>
          LET id == Len(messages')
              row == messages'[id]
              r == row.room
              s == row.senderSocketId
              otherAis == {c \in Conns \ {s} :
                             conn[c].connected /\ r \in conn[c].rooms /\ conn[c].role = "ai"}
          IN IF row.senderRole = "ai" /\ otherAis # {}
             THEN /\ roomState'[r].pending =
                        Append(roomState[r].pending,
                               [messageId |-> id, senderSocketId |-> s,
                                releaseAt |-> clock + AI_MESSAGE_DELAY_MS,
                                createdAt |-> clock, blocked |-> FALSE])
                  /\ id \notin timers /\ timers' = timers \cup {id}
                  /\ Cardinality(PendingUpdatesNow(r)) = 1
                  /\ \A i \in PendingUpdatesNow(r) :
                        roomLog'[r][i].ids = PendingView(roomState'[r].pending)
             ELSE /\ roomState'[r].pending = roomState[r].pending
                  /\ timers' = timers
                  /\ PendingUpdatesNow(r) = {}
      ]_vars

C27_Witness ==
    \E m \in 1..Len(messages) :
        /\ messages[m].n > 0 /\ messages[m].senderRole = "ai" /\ messages[m].queued
        /\ m \in timers /\ m \in PendingIds(messages[m].room)
        /\ \E i \in 1..Len(roomLog[messages[m].room]) :
              /\ roomLog[messages[m].room][i].type = "pending-delay-update"
              /\ roomLog[messages[m].room][i].cause = "send"
              /\ roomLog[messages[m].room][i].msg = m

\* the store call awaited by handler t rejects in this step
FailsNow(t) ==
    /\ Stepped(t)
    /\ tasks' = tasks (-) SetToBag({t})
    /\ UNCHANGED <<rooms, participants, messages, conn, roomState, timers, clock,
                   ops, inbox, roomLog>>

\* C28: when a store call of a send-message or start-interject handler
\* fails while no other start-interject handler is in flight, the failed
\* handler leaves no entry in the room's pending list whose timer is
\* cancelled.
C28_FailureKeepsQueueSound ==
    [][\A t \in Running :
          (/\ t.kind \in {"send", "interject"} /\ FailsNow(t)
           /\ \A u \in BagToSet(tasks') : u.kind # "interject")
             => PendingIds(t.roomCode)' \subseteq timers'
      ]_vars

\* the recorded events that the handler of inbound event n has emitted
EmittedBy(n) ==
    UNION {{<<c, i>> : i \in {j \in 1..Len(inbox[c]) : inbox[c][j].by = n}} : c \in Conns}
    \cup UNION {{<<r, i>> : i \in {j \in 1..Len(roomLog[r]) : roomLog[r][j].by = n}} :
                   r \in RoomCodes}

\* C29: when a store call of a send-message handler fails, that handler has
\* emitted no outbound event.
C29_FailedSendEmitsNothing ==
    [][\A t \in Running :
          (t.kind = "send" /\ FailsNow(t)) => EmittedBy(t.n) = {}
      ]_vars

\* C30: whenever the pause flag of a room is false and no send-message or
\* toggle-pause-ai handler for the room is in flight, no message of the room
\* is stored as held for the AI.
C30_NoHeldWhenResumed ==
    \A r \in Rooms :
        (/\ ~rooms[r].pause_ai
         /\ \A t \in Running : t.roomCode = r => t.kind \notin {"send", "toggle"})
           => \A m \in 1..Len(messages) : messages[m].room = r => ~messages[m].heldForAi

\* the participant records of room r that carry the socket id of connection c
RecordsOf(c, r) == {i \in 1..Len(participants[r]) : participants[r][i].socket_id = c}

\* C31: the send-message handlers of one connection create at most one
\* participant record in its room, and the messages they store all carry
\* the same display name.
C31_OneIdentityPerConnection ==
    \A c \in Conns :
        /\ \A r \in Rooms : Cardinality(RecordsOf(c, r)) <= 1
        /\ \A m1, m2 \in 1..Len(messages) :
              (/\ messages[m1].senderSocketId = c /\ messages[m2].senderSocketId = c
               /\ messages[m1].n > 0 /\ messages[m2].n > 0)
                 => messages[m1].senderDisplayName = messages[m2].senderDisplayName

\* the rooms in which connection c has completed a send-message
SentIn(c) ==
    {messages[m].room : m \in {k \in 1..Len(messages) :
        /\ messages[k].senderSocketId = c /\ messages[k].n > 0
        /\ \A t \in Running : ~(t.kind = "send" /\ t.n = messages[k].n)}}

\* C32: a connection that has completed a send-message in a room has a
\* participant record in that room under its identity, and its in-memory
\* role is the role of that record.
C32_SenderHasRecord ==
    \A c \in Conns : \A r \in SentIn(c) :
        /\ conn[c].clientId # 0
        /\ getParticipantByClient(r, conn[c].clientId) # NoPart
        /\ getParticipantByClient(r, conn[c].clientId).role = conn[c].role

\* the new-message events that send-message handlers emitted to connection c
ImmediateOf(c) ==
    {i \in 1..Len(inbox[c]) :
        inbox[c][i].type = "message-new" /\ inbox[c][i].cause = "send"}

\* C33: every connection receives the new-message events of send-message
\* handlers in the order in which the server received the send-message
\* events.
C33_ImmediateInSendOrder ==
    \A c \in Conns : \A i, j \in ImmediateOf(c) :
        i < j => inbox[c][i].by <= inbox[c][j].by

\* the position of a status in the order sent, delivered, read
StatusRank(status) ==
    IF status = "sent" THEN 1 ELSE IF status = "delivered" THEN 2 ELSE 3

\* C34: no step moves the stored status of a message backwards in the order
\* sent, delivered, read.
C34_StoredStatusMonotonic ==
    [][\A m \in 1..Len(messages) :
          StatusRank(messages'[m].status) >= StatusRank(messages[m].status)
      ]_vars

C34_Witness ==
    \E r \in Rooms : \E i, j \in 1..Len(roomLog[r]) :
        /\ i < j
        /\ roomLog[r][i].type = "messages-read"
        /\ roomLog[r][j].type = "message-status"
        /\ roomLog[r][j].msg \in Range(roomLog[r][i].ids)
        /\ messages[roomLog[r][j].msg].status = "read"

\* C35: the stored status of a message becomes 'read' only from 'delivered'.
C35_ReadOnlyFromDelivered ==
    [][\A m \in 1..Len(messages) :
          (messages[m].status # "read" /\ messages'[m].status = "read")
             => messages[m].status = "delivered"
      ]_vars

\* the message-status broadcasts for message m that this step sends
StatusUpdatesNow(m) ==
    {i \in (Len(roomLog[messages'[m].room]) + 1)..Len(roomLog'[messages'[m].room]) :
        /\ roomLog'[messages'[m].room][i].type = "message-status"
        /\ roomLog'[messages'[m].room][i].msg = m}

\* a send-message handler resumes from its markDelivered call for message m
DeliveredStep(m) ==
    \E t \in Running :
        t.kind = "send" /\ t.pc = "markDelivered" /\ t.msg = m /\ Stepped(t)

\* C36: the handler that saves a message goes on to markDelivered exactly
\* when a connection other than the sender is in the room at that step, and
\* otherwise returns with the message stored as 'sent'; on return from
\* markDelivered a message still 'sent' is 'delivered' and one status-update
\* is broadcast; no other step moves a message from 'sent' to 'delivered' or
\* broadcasts a status-update.
C36_DeliveredIffRecipient ==
    [][/\ SavedNow =>
             LET id == Len(messages')
                 row == messages'[id]
                 others == {c \in Conns \ {row.senderSocketId} :
                               conn[c].connected /\ row.room \in conn[c].rooms}
                 resumed == {u \in BagToSet(tasks') : u.kind = "send" /\ u.n = row.n}
             IN /\ row.status = "sent"
                /\ StatusUpdatesNow(id) = {}
                /\ IF others # {}
                   THEN \E u \in resumed : u.pc = "markDelivered" /\ u.msg = id
                   ELSE \A u \in resumed : u.pc # "markDelivered"
       /\ \A m \in 1..Len(messages) :
             /\ DeliveredStep(m)
                  => /\ messages[m].status = "sent" => messages'[m].status = "delivered"
                     /\ Cardinality(StatusUpdatesNow(m)) = 1
             /\ (\/ messages[m].status = "sent" /\ messages'[m].status = "delivered"
                 \/ StatusUpdatesNow(m) # {})
                  => DeliveredStep(m)
      ]_vars

C36_Witness ==
    \E m \in 1..Len(messages) :
        /\ messages[m].n > 0 /\ messages[m].status = "delivered"
        /\ \E i \in 1..Len(roomLog[messages[m].room]) :
              /\ roomLog[messages[m].room][i].type = "message-status"
              /\ roomLog[messages[m].room][i].msg = m
              /\ roomLog[messages[m].room][i].by = messages[m].n

\* C37: every entry in the pending list of a room is eventually out of it.
C37_PendingEventuallyRemoved ==
    \A r \in Rooms : \A id \in 1..MaxMsgs :
        (id \in PendingIds(r)) ~> (id \notin PendingIds(r))

C37_Witness ==
    \E m \in 1..Len(messages) :
        /\ messages[m].n > 0 /\ messages[m].queued
        /\ m \notin PendingIds(messages[m].room)
        /\ (messages[m].due \/ messages[m].blocked)

\* the participant records of room r are kept by this step, whatever else
\* it changes in them
RecordsKept(r) ==
    /\ Len(participants'[r]) >= Len(participants[r])
    /\ \A i \in 1..Len(participants[r]) :
          participants'[r][i].client_id = participants[r][i].client_id

\* C38: a participant record is created only by the upsert of a send-message
\* handler whose connection has no identity yet, that is once per
\* connection, and no step removes a record.
C38_RecordsOnlyByFirstSend ==
    [][\A r \in Rooms :
          /\ RecordsKept(r)
          /\ Len(participants'[r]) > Len(participants[r])
               => \E t \in Running :
                     /\ Stepped(t) /\ t.kind = "send" /\ t.pc = "upsert"
                     /\ t.roomCode = r
                     /\ conn[t.conn].clientId = 0
      ]_vars

\* the history snapshots that this step sends to connection c
HistoryNow(c) ==
    {i \in (Len(inbox[c]) + 1)..Len(inbox'[c]) : inbox'[c][i].type = "chat-history"}

\* message m has been emitted to the AI connections of its room by the
\* expiry of its timer or by an interjection flush
ReleasedToAi(m) ==
    \/ messages[m].released
    \/ \E t \in Running : t.kind = "timer" /\ t.msg = m

\* C39: the history snapshot sent to a joiner whose role is AI lists an AI
\* message of another sender that went through the delay queue exactly when
\* that message has been released to the AI connections by timer expiry or
\* by a flush; it lists no message that is in the pending list.
C39_AiHistoryMatchesRelease ==
    [][\A c \in Conns : \A i \in HistoryNow(c) :
          conn[c].role = "ai" =>
             \A m \in 1..Len(messages) :
                (/\ messages[m].room = conn[c].roomCode
                 /\ messages[m].senderRole = "ai" /\ messages[m].queued
                 /\ messages[m].senderSocketId # c)
                   => /\ (m \in Range(inbox'[c][i].ids)) <=> ReleasedToAi(m)
                      /\ m \in PendingIds(messages[m].room)
                            => m \notin Range(inbox'[c][i].ids)
      ]_vars

====
